---- MODULE Spec2Model ----
(***************************************************************************)
(* The per-session transcription pipeline of intercall-nest: the socket    *)
(* gateway (TranscriptionGateway), the accumulator and recording meter     *)
(* (TranscriptionService), and the database write queue                    *)
(* (DatabaseQueueService) in front of the Transcription table.             *)
(*                                                                         *)
(* Time is a bounded integer clock `now`; every Date.now() / new Date()    *)
(* of the code reads it.  Each action is one run-to-completion step of the *)
(* Node.js event loop: a handler up to its first real await, or the        *)
(* continuation after it.                                                  *)
(***************************************************************************)
EXTENDS Integers, Sequences, FiniteSets, TLC

\* ------------------------------------------------------------- bounds
MaxTime == 1
MaxSegments == 1
MaxTokens == 1
MaxOps == 2
MaxDbFailures == 1
MaxReconnectTime == 2
MaxEmits == 1
MaxMeterTime == 4
MaxMeterSegments == 3
MaxStreamLen == 4
MaxQuotaTime == 5
MaxCalls == 2
MonthLength == 2
MaxWorkerOps == 4
MaxWorkerTime == 2
MaxWorkerFailures == 3
MaxFlushWaits == 1
MaxSubscribes == 2
MaxUpstreams == 2

\* ------------------------------------------------- program constants
maxConcurrency == 3
DefaultMaxRetries == 3
FinalPriority == 10
PeriodicPriority == 1

\* ------------------------------------------------------------ inputs
Sockets == {"s1", "s2"}
Convs == {"c1"}
Orgs == {"orgA"}
NoOrg == "no-org"
NoConv == "no-conv"
NoTimer == "no-timer"
BlankLang == " "
Langs == {"en", BlankLang}
NoSpeaker == ""
NullTime == -1

\* The vocabularies query parameter after parsing: null when the client
\* sends none (or sends what JSON.parse rejects), else the parsed value.
NoVocabularies == [null |-> TRUE, v |-> <<>>]
Vocabularies == {NoVocabularies, [null |-> FALSE, v |-> <<"term">>]}

\* The upstream tokens the model feeds: a final original token with a
\* speaker, and a partial translation token without one.
Tokens ==
  { [text |-> "a", translation_status |-> "original", is_final |-> TRUE, speaker |-> "1"],
    [text |-> "b", translation_status |-> "translation", is_final |-> FALSE, speaker |-> NoSpeaker] }

\* The tokens of the token-stream specification: finals of two speakers on
\* both tracks, partial tokens, a final without a speaker, and the "<end>"
\* marker of endpoint detection, bare and padded.
Token(text, status, final, speaker) ==
  [text |-> text, translation_status |-> status, is_final |-> final, speaker |-> speaker]

StreamTokens ==
  { Token("A", "original", TRUE, "1"), Token("B", "original", TRUE, "1"),
    Token("C", "original", TRUE, "2"), Token("D", "original", TRUE, "1"),
    Token("A", "translation", TRUE, "1"), Token("B", "translation", TRUE, "1"),
    Token("C", "translation", TRUE, "2"),
    Token("p", "original", FALSE, "1"), Token("q", "translation", FALSE, NoSpeaker),
    Token("n", "original", TRUE, NoSpeaker),
    Token("<end>", "original", TRUE, "1"), Token(" <end> ", "translation", TRUE, "2") }

\* What checkQuotaAvailability does for the organization at connect: it
\* returns, throws QuotaExceededException with the plan's figures, or throws
\* another error.
QuotaMinutes == 60
QuotaAllowed == [outcome |-> "allowed", plan |-> "Free", usedMinutes |-> 0]
QuotaChecks ==
  { QuotaAllowed,
    [outcome |-> "exceeded", plan |-> "Free", usedMinutes |-> QuotaMinutes],
    [outcome |-> "exceeded", plan |-> "Pro", usedMinutes |-> QuotaMinutes + 1],
    [outcome |-> "error", plan |-> "Free", usedMinutes |-> 0] }

\* new QuotaExceededException(message, data): the HttpException response.
QuotaExceededException(quota) ==
  [ response |->
      [ error |-> "QUOTA_EXCEEDED",
        data |-> [ currentPlan |-> quota.plan, quotaMinutes |-> QuotaMinutes,
                   usedMinutes |-> quota.usedMinutes, upgradeRequired |-> TRUE ] ] ]

\* The events the gateway emits to a client (their message texts left out).
NoCode == "no-code"
QuotaExceededEvent(exception) ==
  [ name |-> "quota:exceeded", error |-> exception.response.error,
    data |-> exception.response.data ]
SessionNotInitialized ==
  [ name |-> "transcription:error", code |-> NoCode, conversationId |-> NoConv ]
RecordingNotStarted(c) ==
  [ name |-> "transcription:error", code |-> "RECORDING_NOT_STARTED", conversationId |-> c ]

VARIABLES
  now,                        \* the clock (Date.now())
  pc,                         \* handleConnection's position, per socket
  dpc,                        \* handleDisconnect's position, per socket
  attr,                       \* the fields handleConnection stores on the socket
  emits,                      \* per socket, the quota and gate events emitted to the client
  cleaningUp,                 \* gateway.cleaningUp
  periodicSaveIntervals,      \* gateway.periodicSaveIntervals: conv -> timer handle
  timers,                     \* the setInterval timers that are alive (by creating socket)
  sessionMap,                 \* gateway.sessionMap (its key set)
  conversationSubscriptions,  \* gateway.conversationSubscriptions (its key set)
  accumulatedResults,         \* service.accumulatedResults: a map conv -> accumulator
  conversationData,           \* service.conversationData (its key set)
  conversationSubjects,       \* service.conversationSubjects (its key set)
  ws,                         \* the upstream socket behind sonioxConnectionPromises[conv]
  audioWait,                  \* audio_chunk handlers suspended at `await connectionPromise`
  audioSent,                  \* convs whose current upstream socket has been sent audio
  upstreams,                  \* per conv, the upstream sockets created and not yet closed
  frames,                     \* per conv, the kinds of frame sent on its current upstream
                              \* socket, in order (a run of audio frames is noted once)
  epoch,                      \* per conv, the number of accumulators created so far
  queue,                      \* DatabaseQueueService.queue
  processing,                 \* DatabaseQueueService.processing (operation ids)
  inflight,                   \* the operations whose processOperation awaits prisma
  retryTimers,                \* operations waiting in a retry setTimeout
  rows,                       \* the Transcription table
  nextEnq,                    \* the number of operations enqueued so far
  dbFailures,                 \* the number of datastore failures injected so far
  finLog,                     \* one record per finalization that passed the guard
  lastFinal,                  \* per conv, the enqueue number of the last final write applied
  subscribed,                 \* per conv, the subscriptions the audio_chunk handlers created
                              \* since its session began (0 again once a disconnect cleaned up)
  organizationSubscription,   \* the organization_subscription table (with its plan)
  usagePeriod,                \* the usage_period table
  calls,                      \* the SubscriptionService calls in progress, per caller
  usageAsked,                 \* the usage at the start plus the minutes recordUsage was given
  flushing                    \* a flush() call: its position and the timeouts it has slept

gatewayVars == <<pc, dpc, attr, emits, cleaningUp, periodicSaveIntervals, timers, sessionMap,
                 conversationSubscriptions>>
serviceVars == <<accumulatedResults, conversationData, conversationSubjects, ws,
                 upstreams, audioWait, audioSent, frames, epoch>>
queueVars == <<queue, processing, inflight, retryTimers, nextEnq>>
quotaVars == <<organizationSubscription, usagePeriod, calls, usageAsked>>
shutdownVars == <<flushing>>
dbVars == <<rows, dbFailures, quotaVars, shutdownVars>>
histVars == <<finLog, lastFinal, subscribed>>
vars == <<now, gatewayVars, serviceVars, queueVars, dbVars, histVars>>

\* ------------------------------------------------------- Map helpers
MapSet(m, k, v) == [x \in (DOMAIN m) \cup {k} |-> IF x = k THEN v ELSE m[x]]
MapDelete(m, k) == [x \in (DOMAIN m) \ {k} |-> m[x]]
MapHas(m, k) == k \in DOMAIN m

\* JSON.stringify(segments) is a string whatever the list holds; null is not.
Json(segs) == [null |-> FALSE, v |-> segs]
JsonNull == [null |-> TRUE, v |-> <<>>]

\* ------------------------------------------- TranscriptionService
\* The accumulator initializeConversation and transcribeRealTime create.
\* `epoch` and `errAfterData` are history fields: which accumulator of the
\* conversation this is, and whether an error_code arrived after data;
\* `tokenLog` is the history of the tokens it has handled, in arrival order.
NewAccumulator(lang, vocabularies, t, e) ==
  [ originalTokens |-> <<>>, translationTokens |-> <<>>,
    startTime |-> t, targetLanguage |-> lang, vocabularies |-> vocabularies,
    hasReceivedData |-> FALSE, hasError |-> FALSE,
    lastOriginalSpeaker |-> NoSpeaker, lastTranslationSpeaker |-> NoSpeaker,
    recordingStartTime |-> NullTime, totalRecordingDurationMs |-> 0,
    isCurrentlyRecording |-> FALSE, recordingSegments |-> <<>>,
    finalOriginalSegments |-> <<>>, finalTranslationSegments |-> <<>>,
    epoch |-> e, errAfterData |-> FALSE, tokenLog |-> <<>> ]

\* An append that never merges into the last segment.
appendAlwaysNew(segments, speaker, text, timestamp) ==
  Append(segments, [role |-> speaker, text |-> text, timestamp |-> timestamp])

appendFinalSegment(segments, speaker, text, timestamp) ==
  IF Len(segments) > 0 /\ segments[Len(segments)].role = speaker
  THEN [segments EXCEPT ![Len(segments)].text = @ \o text]
  ELSE Append(segments, [role |-> speaker, text |-> text, timestamp |-> timestamp])

\* The live-buffer append of one token: the speaker label on a change of
\* speaker, then the text.
LiveAppend(tokens, last, tok) ==
  LET labelled == tok.speaker # NoSpeaker /\ tok.speaker # last
      sep == IF labelled /\ last # NoSpeaker THEN <<"\n\n">> ELSE <<>>
      lab == IF labelled THEN <<"Speaker " \o tok.speaker \o ": ">> ELSE <<>>
  IN tokens \o sep \o lab \o <<tok.text>>

LiveSpeaker(last, tok) ==
  IF tok.speaker # NoSpeaker /\ tok.speaker # last THEN tok.speaker ELSE last

\* token.text !== '<end>' && token.text.trim() !== '<end>'
IsEndMarker(text) == text \in {"<end>", " <end> ", " <end>", "<end> "}

\* A token handler that files every token as a final one.
AccumulateEveryToken(acc, tok, t) ==
  LET timestamp == IF acc.recordingStartTime # NullTime
                   THEN t - acc.recordingStartTime ELSE 0
      label == "Speaker " \o tok.speaker
      a0 == [acc EXCEPT !.hasReceivedData = TRUE, !.tokenLog = Append(@, tok)]
  IN IF IsEndMarker(tok.text) THEN a0
     ELSE IF tok.translation_status # "translation"
     THEN [a0 EXCEPT
             !.originalTokens = LiveAppend(@, acc.lastOriginalSpeaker, tok),
             !.lastOriginalSpeaker = LiveSpeaker(@, tok),
             !.finalOriginalSegments = appendFinalSegment(@, label, tok.text, timestamp)]
     ELSE [a0 EXCEPT
             !.translationTokens = LiveAppend(@, acc.lastTranslationSpeaker, tok),
             !.lastTranslationSpeaker = LiveSpeaker(@, tok),
             !.finalTranslationSegments = appendFinalSegment(@, label, tok.text, timestamp)]

\* handleSonioxMessage's body for one token with a non-empty text.
AccumulateToken(acc, tok, t) ==
  LET timestamp == IF acc.recordingStartTime # NullTime
                   THEN t - acc.recordingStartTime ELSE 0
      isFinal == tok.is_final /\ tok.speaker # NoSpeaker
      label == "Speaker " \o tok.speaker
      a0 == [acc EXCEPT !.hasReceivedData = TRUE, !.tokenLog = Append(@, tok)]
  IN IF IsEndMarker(tok.text) THEN a0
     ELSE IF tok.translation_status # "translation"
     THEN [a0 EXCEPT
             !.originalTokens = LiveAppend(@, acc.lastOriginalSpeaker, tok),
             !.lastOriginalSpeaker = LiveSpeaker(@, tok),
             !.finalOriginalSegments =
                IF isFinal THEN appendFinalSegment(@, label, tok.text, timestamp) ELSE @]
     ELSE [a0 EXCEPT
             !.translationTokens = LiveAppend(@, acc.lastTranslationSpeaker, tok),
             !.lastTranslationSpeaker = LiveSpeaker(@, tok),
             !.finalTranslationSegments =
                IF isFinal THEN appendFinalSegment(@, label, tok.text, timestamp) ELSE @]

\* A start that opens no segment in the segment list.
startWithoutSegment(acc, t) ==
  IF acc.isCurrentlyRecording THEN acc
  ELSE [acc EXCEPT !.recordingStartTime = t, !.isCurrentlyRecording = TRUE]

\* A start without the already-recording check.
startUnguarded(acc, t) ==
  [acc EXCEPT !.recordingStartTime = t,
              !.isCurrentlyRecording = TRUE,
              !.recordingSegments = Append(@, [startTime |-> t, endTime |-> NullTime])]

startRecordingSession(acc, t) ==
  IF acc.isCurrentlyRecording THEN acc
  ELSE [acc EXCEPT !.recordingStartTime = t,
                   !.isCurrentlyRecording = TRUE,
                   !.recordingSegments = Append(@, [startTime |-> t, endTime |-> NullTime])]

\* A stop that measures the segment from the accumulator's creation.
stopFromConnect(acc, t) ==
  IF ~acc.isCurrentlyRecording \/ acc.recordingStartTime = NullTime THEN acc
  ELSE [acc EXCEPT !.totalRecordingDurationMs = @ + (t - acc.startTime),
                   !.isCurrentlyRecording = FALSE,
                   !.recordingSegments =
                      IF Len(@) > 0 THEN [@ EXCEPT ![Len(@)].endTime = t] ELSE @,
                   !.recordingStartTime = NullTime]

stopRecordingSession(acc, t) ==
  IF ~acc.isCurrentlyRecording \/ acc.recordingStartTime = NullTime THEN acc
  ELSE [acc EXCEPT !.totalRecordingDurationMs = @ + (t - acc.recordingStartTime),
                   !.isCurrentlyRecording = FALSE,
                   !.recordingSegments =
                      IF Len(@) > 0 THEN [@ EXCEPT ![Len(@)].endTime = t] ELSE @,
                   !.recordingStartTime = NullTime]

\* getRecordingDuration: the closed segments plus the one in progress.
getRecordingDuration(accs, c, t) ==
  IF ~MapHas(accs, c) THEN 0
  ELSE LET acc == accs[c] IN
       IF acc.isCurrentlyRecording /\ acc.recordingStartTime # NullTime
       THEN acc.totalRecordingDurationMs + (t - acc.recordingStartTime)
       ELSE acc.totalRecordingDurationMs

\* The duration getConversationResults returns for an accumulator.
ResultsDuration(acc, t) ==
  IF Len(acc.recordingSegments) = 0 THEN t - acc.startTime
  ELSE acc.totalRecordingDurationMs

EmptyResults ==
  [ transcriptionResult |-> <<>>, translationResult |-> <<>>,
    transcriptionResultJson |-> Json(<<>>), translationResultJson |-> Json(<<>>),
    durationInMs |-> 0, targetLanguage |-> "", vocabularies |-> NoVocabularies,
    hasReceivedData |-> FALSE, hasError |-> FALSE ]

getConversationResults(accs, c, t) ==
  IF ~MapHas(accs, c) THEN EmptyResults
  ELSE LET acc == accs[c] IN
    [ transcriptionResult |-> acc.originalTokens,
      translationResult |-> acc.translationTokens,
      transcriptionResultJson |-> Json(acc.finalOriginalSegments),
      translationResultJson |-> Json(acc.finalTranslationSegments),
      durationInMs |-> ResultsDuration(acc, t),
      targetLanguage |-> acc.targetLanguage,
      vocabularies |-> acc.vocabularies,
      hasReceivedData |-> acc.hasReceivedData,
      hasError |-> acc.hasError ]

\* isRecordingActive is called by the gateway but is not in the service's
\* source; the design states it as the meter's isRecording.
isRecordingActive(accs, c) ==
  MapHas(accs, c) /\ accs[c].isCurrentlyRecording

\* cleanupConversation
CleanedAccumulators(c) == MapDelete(accumulatedResults, c)

\* ------------------------------------------- DatabaseQueueService
\* A periodic builder that keys the upsert on the operation's id instead of
\* the conversationId.
PeriodicOpKeyedByOpId(c, org, res, t, n) ==
  [ id |-> <<"periodic", c, t>>, type |-> "upsert", where |-> <<"periodic", c, t>>,
    create |-> [ id |-> <<"periodic", c, t>>, organizationId |-> org,
                 durationInMs |-> res.durationInMs,
                 targetLanguage |-> res.targetLanguage,
                 transcriptionResult |-> res.transcriptionResultJson,
                 translationResult |-> res.translationResultJson,
                 vocabularies |-> res.vocabularies,
                 status |-> "IN_PROGRESS" ],
    update |-> [ durationInMs |-> res.durationInMs,
                 transcriptionResult |-> res.transcriptionResultJson,
                 translationResult |-> res.translationResultJson,
                 vocabularies |-> res.vocabularies,
                 status |-> "IN_PROGRESS" ],
    priority |-> PeriodicPriority, retries |-> 0, maxRetries |-> DefaultMaxRetries,
    kind |-> "periodic", conv |-> c, enq |-> n ]

\* The operation savePeriodicUpdate builds.  Neither builder sets createdAt.
\* `kind`, `conv` and `enq` are history fields (what built the operation, for
\* which session, and its place in the order of enqueues).
PeriodicOp(c, org, res, t, n) ==
  [ id |-> <<"periodic", c, t>>, type |-> "upsert", where |-> c,
    create |-> [ id |-> c, organizationId |-> org,
                 durationInMs |-> res.durationInMs,
                 targetLanguage |-> res.targetLanguage,
                 transcriptionResult |-> res.transcriptionResultJson,
                 translationResult |-> res.translationResultJson,
                 vocabularies |-> res.vocabularies,
                 status |-> "IN_PROGRESS" ],
    update |-> [ durationInMs |-> res.durationInMs,
                 transcriptionResult |-> res.transcriptionResultJson,
                 translationResult |-> res.translationResultJson,
                 vocabularies |-> res.vocabularies,
                 status |-> "IN_PROGRESS" ],
    priority |-> PeriodicPriority, retries |-> 0, maxRetries |-> DefaultMaxRetries,
    kind |-> "periodic", conv |-> c, enq |-> n ]

\* A status choice that tests the error flag before the data flag.
FinalStatusErrorFirst(res) ==
  IF res.hasError THEN "FAILED"
  ELSE IF res.hasReceivedData THEN "COMPLETED"
  ELSE "NO_DATA"

\* The status handleDisconnect chooses for the final write.
FinalStatus(res) ==
  IF res.hasReceivedData THEN "COMPLETED"
  ELSE IF res.hasError THEN "FAILED"
  ELSE "NO_DATA"

\* A saveData that keeps the results whatever was received.
SaveDataKeepsResults(c, org, res) ==
  [ id |-> c, organizationId |-> org,
    durationInMs |-> res.durationInMs,
    targetLanguage |-> res.targetLanguage,
    transcriptionResult |-> res.transcriptionResultJson,
    translationResult |-> res.translationResultJson,
    vocabularies |-> res.vocabularies,
    status |-> FinalStatus(res) ]

\* saveData of handleDisconnect.
SaveData(c, org, res) ==
  [ id |-> c, organizationId |-> org,
    durationInMs |-> res.durationInMs,
    targetLanguage |-> res.targetLanguage,
    transcriptionResult |->
      IF res.hasReceivedData THEN res.transcriptionResultJson ELSE JsonNull,
    translationResult |->
      IF res.hasReceivedData THEN res.translationResultJson ELSE JsonNull,
    vocabularies |-> IF res.hasReceivedData THEN res.vocabularies ELSE NoVocabularies,
    status |-> FinalStatus(res) ]

\* The operation saveFinalTranscriptionWithRetry builds from saveData.
FinalOp(c, data, n) ==
  [ id |-> <<"final", c, 0>>, type |-> "upsert", where |-> c,
    create |-> data,
    update |-> [ durationInMs |-> data.durationInMs,
                 targetLanguage |-> data.targetLanguage,
                 transcriptionResult |-> data.transcriptionResult,
                 translationResult |-> data.translationResult,
                 vocabularies |-> data.vocabularies,
                 status |-> data.status ],
    priority |-> FinalPriority, retries |-> 0, maxRetries |-> DefaultMaxRetries,
    kind |-> "final", conv |-> c, enq |-> n ]

\* enqueue's comparator returns b.priority - a.priority for different
\* priorities and otherwise evaluates a.createdAt.getTime(); no operation
\* carries a createdAt, so that evaluation throws.  A comparison sort has to
\* compare two elements that end up adjacent, so Array.prototype.sort throws
\* exactly when two queued operations have the same priority.
SortThrows(q) ==
  \E i, j \in 1..Len(q) : i < j /\ q[i].priority = q[j].priority

RECURSIVE SortedInsert(_, _)
SortedInsert(sorted, op) ==
  IF sorted = <<>> THEN <<op>>
  ELSE IF Head(sorted).priority - op.priority < 0 THEN <<op>> \o sorted
  ELSE <<Head(sorted)>> \o SortedInsert(Tail(sorted), op)

RECURSIVE SortQueue(_)
SortQueue(q) ==
  IF q = <<>> THEN <<>>
  ELSE SortedInsert(SortQueue(SubSeq(q, 1, Len(q) - 1)), q[Len(q)])

\* enqueue: push, then sort.  When the sort throws the array is left as it
\* was after the push (the sorted copy is written back only at the end) and
\* the caller sees the exception.
enqueue(q, operation) ==
  LET pushed == Append(q, operation) IN
  IF SortThrows(pushed) THEN [queue |-> pushed, threw |-> TRUE]
  ELSE [queue |-> SortQueue(pushed), threw |-> FALSE]

\* A loop that starts an operation whatever is being processed.
RECURSIVE DispatchUnguarded(_, _, _)
DispatchUnguarded(q, proc, started) ==
  IF q = <<>>
  THEN [queue |-> q, processing |-> proc, started |-> started]
  ELSE DispatchUnguarded(Tail(q), proc \cup {Head(q).id}, started \cup {Head(q)})

\* processQueue's loop: shift while there is room; an operation whose id is
\* already in `processing` is shifted and skipped.
RECURSIVE Dispatch(_, _, _)
Dispatch(q, proc, started) ==
  IF q = <<>> \/ Cardinality(proc) >= maxConcurrency
  THEN [queue |-> q, processing |-> proc, started |-> started]
  ELSE IF Head(q).id \in proc THEN Dispatch(Tail(q), proc, started)
  ELSE Dispatch(Tail(q), proc \cup {Head(q).id}, started \cup {Head(q)})

\* prisma.transcription.upsert({where, create, update}): update the row the
\* key names, or insert the create payload.  An insert whose id is taken
\* fails on the primary key and changes nothing.
Patched(row, upd) == [f \in DOMAIN row |-> IF f \in DOMAIN upd THEN upd[f] ELSE row[f]]

Upsert(table, op) ==
  IF \E r \in table : r.id = op.where
  THEN {IF r.id = op.where THEN Patched(r, op.update) ELSE r : r \in table}
  ELSE IF \E r \in table : r.id = op.create.id THEN table
  ELSE table \cup {op.create}

\* A retry test that allows one attempt more.
ShouldRetryInclusive(retryable, retries, maxRetries) ==
  retryable /\ retries <= maxRetries

\* The retry test of processOperation's catch block, on the incremented count.
ShouldRetry(retryable, retries, maxRetries) ==
  retryable /\ retries < maxRetries

\* ------------------------------------------- SubscriptionService
\* The callers of the service, and the rows its tables can hold at the start:
\* no subscription, or one subscription of the organization on a lifetime or
\* a monthly plan, with a period end or without one, and for a monthly plan
\* the usage period that an earlier call created, if any.
Callers == {"p1", "p2"}
NoPeriod == -2
UsageLevels == {0, QuotaMinutes - 1, QuotaMinutes}

Subscription(status, monthly, used, periodEnd) ==
  [ organizationId |-> "orgA", status |-> status,
    plan |-> [name |-> IF monthly THEN "Pro" ELSE "Free",
              quotaMinutes |-> QuotaMinutes, quotaResetsMonthly |-> monthly],
    lifetimeUsageMinutes |-> used,
    currentPeriodStart |-> 0, currentPeriodEnd |-> periodEnd ]

Subscriptions ==
  { Subscription(status, monthly, used, periodEnd) :
      status \in {"active", "canceled"}, monthly \in BOOLEAN,
      used \in UsageLevels, periodEnd \in {NullTime, MonthLength} }

UsagePeriodRow(periodStart, periodEnd, used) ==
  [periodStart |-> periodStart, periodEnd |-> periodEnd, usageMinutes |-> used]

IdleCall ==
  [ pc |-> "idle", kind |-> "none", n |-> 0, minutes |-> 0, now |-> 0,
    subscription |-> {}, periodStart |-> 0, periodEnd |-> NullTime,
    period |-> NoPeriod, used |-> 0, outcome |-> "none" ]

TotalUsage(subs, periods) ==
  LET RECURSIVE Sum(_)
      Sum(S) == IF S = {} THEN 0
                ELSE LET r == CHOOSE r \in S : TRUE IN r[2] + Sum(S \ {r})
  IN Sum({<<NoPeriod, r.lifetimeUsageMinutes>> : r \in subs}
         \cup {<<r.periodStart, r.usageMinutes>> : r \in periods})

\* ---------------------------------------------------------- Init
InitSessions ==
  /\ now = 0
  /\ pc = [s \in Sockets |-> "idle"]
  /\ dpc = [s \in Sockets |-> "none"]
  /\ attr = [s \in Sockets |->
               [conversationId |-> NoConv, targetLanguage |-> "",
                vocabularies |-> NoVocabularies, activeOrganizationId |-> NoOrg]]
  /\ emits = [s \in Sockets |-> <<>>]
  /\ cleaningUp = {}
  /\ periodicSaveIntervals = [c \in Convs |-> NoTimer]
  /\ timers = {}
  /\ sessionMap = {}
  /\ conversationSubscriptions = {}
  /\ accumulatedResults = <<>>
  /\ conversationData = {}
  /\ conversationSubjects = {}
  /\ ws = [c \in Convs |-> "none"]
  /\ audioWait = {}
  /\ audioSent = {}
  /\ frames = [c \in Convs |-> <<>>]
  /\ upstreams = [c \in Convs |-> 0]
  /\ epoch = [c \in Convs |-> 0]
  /\ queue = <<>>
  /\ processing = {}
  /\ inflight = {}
  /\ retryTimers = {}
  /\ rows = {}
  /\ nextEnq = 0
  /\ dbFailures = 0
  /\ finLog = {}
  /\ lastFinal = [c \in Convs |-> 0]
  /\ subscribed = [c \in Convs |-> 0]
  /\ calls = [p \in Callers |-> IdleCall]
  /\ flushing = [pc |-> "idle", waits |-> 0]

Init ==
  /\ InitSessions
  /\ organizationSubscription = {Subscription("active", FALSE, 0, NullTime)}
  /\ usagePeriod = {}
  /\ usageAsked = 0

\* The subscription tables in any of the states above.
InitQuota ==
  /\ InitSessions
  /\ organizationSubscription \in {{}} \cup {{sub} : sub \in Subscriptions}
  /\ usagePeriod \in
       {{}} \cup { {UsagePeriodRow(0, MonthLength, used)} : used \in
                     IF \E sub \in organizationSubscription : sub.plan.quotaResetsMonthly
                     THEN UsageLevels ELSE {} }
  /\ usageAsked = TotalUsage(organizationSubscription, usagePeriod)

Tick ==
  /\ now < MaxTime
  /\ now' = now + 1
  /\ UNCHANGED <<gatewayVars, serviceVars, queueVars, dbVars, histVars>>

\* ------------------------------------- TranscriptionGateway: connect
ConvOf(s) == attr[s].conversationId
Connected(s) == pc[s] \in {"opening", "ready"} /\ dpc[s] = "none"
\* A test that takes a connection for stored only once it is open.
PromiseExistsWhenOpen(c) == ws[c] \in {"open", "closing"}

\* sonioxConnectionPromises.has(conversationId)
PromiseExists(c) == ws[c] # "none"

\* new WebSocket(...) for conversation c (the count stops at MaxUpstreams).
NewWebSocket(c) ==
  [upstreams EXCEPT ![c] = IF @ < MaxUpstreams THEN @ + 1 ELSE @]

\* Sockets are named in the order in which they connect.
InOrder(s) == s = "s2" => pc["s1"] # "idle"

\* handleConnection ending before the query parameters are stored on the
\* socket: no cookie, no session, or a missing conversationId/targetLanguage.
HandshakeReject(s) ==
  /\ pc[s] = "idle"
  /\ InOrder(s)
  /\ pc' = [pc EXCEPT ![s] = "rejected"]
  /\ UNCHANGED <<now, dpc, attr, emits, cleaningUp, periodicSaveIntervals, timers, sessionMap,
                 conversationSubscriptions, serviceVars, queueVars, dbVars, histVars>>

\* A catch block that emits the event a second time.
QuotaEmitsTwice(quota) ==
  IF quota.outcome = "exceeded"
  THEN <<QuotaExceededEvent(QuotaExceededException(quota)),
         QuotaExceededEvent(QuotaExceededException(quota))>>
  ELSE <<>>

\* What the catch block around checkQuotaAvailability emits.
QuotaEmits(quota) ==
  IF quota.outcome = "exceeded"
  THEN <<QuotaExceededEvent(QuotaExceededException(quota))>>
  ELSE <<>>

\* A handshake that also tells the client when it has no active organization.
HandshakeEmitsNoOrg(org, quota) ==
  IF org = NoOrg THEN << [name |-> "error", error |-> "NO_ACTIVE_ORGANIZATION"] >>
  ELSE QuotaEmits(quota)

\* What handleConnection sends the client before initializeConversation:
\* nothing without an active organization (the quota is not checked then).
HandshakeEmits(org, quota) ==
  IF org = NoOrg THEN <<>> ELSE QuotaEmits(quota)

\* handleConnection from the stored parameters to initializeConversation's
\* await (the quota service's answer is an input).
HandshakeBegin(s, c, lang, vocabularies, org, quota) ==
  /\ pc[s] = "idle"
  /\ InOrder(s)
  /\ attr' = [attr EXCEPT ![s] = [conversationId |-> c, targetLanguage |-> lang,
                                  vocabularies |-> vocabularies,
                                  activeOrganizationId |-> org]]
  /\ emits' = [emits EXCEPT ![s] = @ \o HandshakeEmits(org, quota)]
  /\ IF org = NoOrg \/ quota.outcome # "allowed"
     THEN /\ pc' = [pc EXCEPT ![s] = "rejected"]
          /\ UNCHANGED <<sessionMap, timers, periodicSaveIntervals, serviceVars>>
     ELSE IF PromiseExists(c)
     THEN \* initializeConversation returns at once; the session is registered
          /\ pc' = [pc EXCEPT ![s] = "ready"]
          /\ conversationSubjects' = conversationSubjects \cup {c}
          /\ sessionMap' = sessionMap \cup {s}
          /\ timers' = timers \cup {s}
          /\ periodicSaveIntervals' = [periodicSaveIntervals EXCEPT ![c] = s]
          /\ UNCHANGED <<accumulatedResults, conversationData, ws, upstreams, audioWait,
                         audioSent, frames, epoch>>
     ELSE /\ pc' = [pc EXCEPT ![s] = "opening"]
          /\ conversationSubjects' = conversationSubjects \cup {c}
          /\ conversationData' = conversationData \cup {c}
          /\ accumulatedResults' =
               MapSet(accumulatedResults, c, NewAccumulator(lang, vocabularies, now, epoch[c] + 1))
          /\ epoch' = [epoch EXCEPT ![c] = @ + 1]
          /\ ws' = [ws EXCEPT ![c] = "connecting"]
          /\ upstreams' = NewWebSocket(c)
          /\ UNCHANGED <<sessionMap, timers, periodicSaveIntervals, audioWait, audioSent, frames>>
  /\ UNCHANGED <<now, dpc, cleaningUp, conversationSubscriptions, queueVars, dbVars,
                 histVars>>

\* The upstream socket opens: the configuration is sent, the connection
\* promise resolves, and what awaited it continues: handleConnection
\* registers the session and its timer, suspended audio_chunk handlers send
\* their chunk and subscribe, and a close requested meanwhile is carried out.
OpeningSockets(c) == {s \in Sockets : pc[s] = "opening" /\ ConvOf(s) = c}

\* resultSubject.subscribe(...) in an audio_chunk handler of conversation c
\* (history: the count stops at MaxSubscribes).
Subscribes(c) ==
  [subscribed EXCEPT ![c] = IF @ < MaxSubscribes THEN @ + 1 ELSE @]
AudioWaiters(c) == {s \in audioWait : ConvOf(s) = c}

\* An open handler that resolves the promise before it sends the
\* configuration: the chunk of a waiting handler goes out first.
OpenFramesResolveFirst(waiting) ==
  IF waiting THEN <<"audio", "config">> ELSE <<"config">>

\* The frames the open event puts on the socket: ws.send(config), then
\* resolve(ws), after which a waiting transcribeRealTime sends its chunk.
OpenFrames(waiting) ==
  IF waiting THEN <<"config", "audio">> ELSE <<"config">>

\* ws.send(chunk) on a socket that was sent `sent` so far.
SendAudio(sent) ==
  IF sent # <<>> /\ sent[Len(sent)] = "audio" THEN sent ELSE Append(sent, "audio")

UpstreamOpen(c) ==
  /\ ws[c] \in {"connecting", "connecting-close"}
  /\ ws' = [ws EXCEPT ![c] = IF @ = "connecting" THEN "open" ELSE "closing"]
  /\ upstreams' = upstreams
  /\ pc' = [s \in Sockets |-> IF s \in OpeningSockets(c) THEN "ready" ELSE pc[s]]
  /\ sessionMap' = sessionMap \cup OpeningSockets(c)
  /\ timers' = timers \cup OpeningSockets(c)
  /\ periodicSaveIntervals' =
       IF OpeningSockets(c) = {} THEN periodicSaveIntervals
       ELSE [periodicSaveIntervals EXCEPT ![c] = CHOOSE s \in OpeningSockets(c) : TRUE]
  /\ audioWait' = audioWait \ AudioWaiters(c)
  /\ audioSent' = IF AudioWaiters(c) # {} /\ ws[c] = "connecting"
                  THEN audioSent \cup {c} ELSE audioSent
  /\ frames' = [frames EXCEPT ![c] =
                  OpenFrames(AudioWaiters(c) # {} /\ ws[c] = "connecting")]
  /\ conversationSubscriptions' =
       IF AudioWaiters(c) # {} THEN conversationSubscriptions \cup {c}
       ELSE conversationSubscriptions
  /\ subscribed' =
       IF AudioWaiters(c) # {} /\ c \notin conversationSubscriptions
       THEN Subscribes(c)
       ELSE subscribed
  /\ UNCHANGED <<now, dpc, attr, emits, cleaningUp, accumulatedResults, conversationData,
                 conversationSubjects, epoch, queueVars, dbVars, finLog, lastFinal>>

\* The connection attempt fails: the socket's error handler errors the
\* subject and rejects the promise (which removes it from the map), then its
\* close handler runs.  handleConnection disconnects the socket; a suspended
\* transcribeRealTime runs its catch block.
UpstreamConnectFail(c) ==
  /\ ws[c] \in {"connecting", "connecting-close"}
  /\ ws' = [ws EXCEPT ![c] = "none"]
  /\ upstreams' = [upstreams EXCEPT ![c] = @ - 1]
  /\ pc' = [s \in Sockets |-> IF s \in OpeningSockets(c) THEN "rejected" ELSE pc[s]]
  /\ audioWait' = audioWait \ AudioWaiters(c)
  /\ accumulatedResults' =
       IF AudioWaiters(c) # {} THEN MapDelete(accumulatedResults, c)
       ELSE accumulatedResults
  /\ conversationSubjects' = conversationSubjects \ {c}
  /\ conversationData' = conversationData \ {c}
  /\ conversationSubscriptions' = conversationSubscriptions \ {c}
  /\ audioSent' = audioSent \ {c}
  /\ frames' = [frames EXCEPT ![c] = <<>>]
  /\ UNCHANGED <<now, dpc, attr, emits, cleaningUp, periodicSaveIntervals, timers, sessionMap,
                 epoch, queueVars, dbVars, histVars>>

\* ------------------------------------ upstream messages and events
\* handleSonioxMessage returns early without conversation data or accumulator.
Receives(c) == ws[c] = "open" /\ c \in conversationData /\ MapHas(accumulatedResults, c)

LiveTokens(acc) == Len(acc.originalTokens) + Len(acc.translationTokens)

\* A message with one token.  The upstream answers audio, so tokens arrive
\* only on a socket that has been sent some.
TokenMsg(c, tok) ==
  /\ Receives(c)
  /\ c \in audioSent
  /\ LiveTokens(accumulatedResults[c]) < MaxTokens
  /\ accumulatedResults' =
       [accumulatedResults EXCEPT ![c] = AccumulateToken(@, tok, now)]
  /\ UNCHANGED <<now, gatewayVars, conversationData, conversationSubjects, ws, upstreams, audioWait,
                 audioSent, frames, epoch, queueVars, dbVars, histVars>>

\* A message with an error_code: the flag is set, the subject is errored (the
\* gateway's error callback drops its subscription) and removed.
ErrorMsg(c) ==
  /\ Receives(c)
  /\ accumulatedResults' =
       [accumulatedResults EXCEPT ![c].hasError = TRUE,
                                  ![c].errAfterData = @ \/ accumulatedResults[c].hasReceivedData]
  /\ conversationSubjects' = conversationSubjects \ {c}
  /\ conversationSubscriptions' = conversationSubscriptions \ {c}
  /\ UNCHANGED <<now, pc, dpc, attr, emits, cleaningUp, periodicSaveIntervals, timers, sessionMap,
                 conversationData, ws, upstreams, audioWait, audioSent, frames, epoch, queueVars, dbVars,
                 histVars>>

\* A message with finished: the subject completes (the gateway's complete
\* callback drops its subscription).
FinishedMsg(c) ==
  /\ Receives(c)
  /\ conversationSubscriptions' = conversationSubscriptions \ {c}
  /\ UNCHANGED <<now, pc, dpc, attr, emits, cleaningUp, periodicSaveIntervals, timers, sessionMap,
                 serviceVars, queueVars, dbVars, histVars>>

\* A transport error on the open socket: the error handler errors the
\* subject; the promise is already resolved, so reject does nothing.
UpstreamError(c) ==
  /\ ws[c] \in {"open", "closing"}
  /\ conversationSubscriptions' = conversationSubscriptions \ {c}
  /\ UNCHANGED <<now, pc, dpc, attr, emits, cleaningUp, periodicSaveIntervals, timers, sessionMap,
                 serviceVars, queueVars, dbVars, histVars>>

\* The socket's close event, whoever closed it: both close handlers run.
UpstreamClose(c) ==
  /\ ws[c] \in {"open", "closing"}
  /\ ws' = [ws EXCEPT ![c] = "none"]
  /\ upstreams' = [upstreams EXCEPT ![c] = @ - 1]
  /\ conversationData' = conversationData \ {c}
  /\ conversationSubjects' = conversationSubjects \ {c}
  /\ conversationSubscriptions' = conversationSubscriptions \ {c}
  /\ audioSent' = audioSent \ {c}
  /\ frames' = [frames EXCEPT ![c] = <<>>]
  /\ UNCHANGED <<now, pc, dpc, attr, emits, cleaningUp, periodicSaveIntervals, timers, sessionMap,
                 accumulatedResults, audioWait, epoch, queueVars, dbVars, histVars>>

\* ------------------------------------------- savePeriodicUpdate
ValidTargetLanguage(lang) == lang # "" /\ lang # BlankLang

PeriodicWrites(res) ==
  /\ res.transcriptionResult # <<>> \/ res.translationResult # <<>>
  /\ ValidTargetLanguage(res.targetLanguage)

\* The queue after savePeriodicUpdate(c, org) read the accumulators `accs`.
savePeriodicUpdate(accs, c, org) ==
  LET res == getConversationResults(accs, c, now) IN
  IF PeriodicWrites(res)
  THEN enqueue(queue, PeriodicOp(c, org, res, now, nextEnq + 1)).queue
  ELSE queue

PeriodicSaveStep(accs, c, org) ==
  LET writes == PeriodicWrites(getConversationResults(accs, c, now)) IN
  /\ writes => nextEnq < MaxOps
  /\ queue' = savePeriodicUpdate(accs, c, org)
  /\ nextEnq' = IF writes THEN nextEnq + 1 ELSE nextEnq
  /\ UNCHANGED <<processing, inflight, retryTimers>>

\* ------------------------------------------- control events
\* handleStartRecording
StartRecording(s) ==
  /\ Connected(s)
  /\ MapHas(accumulatedResults, ConvOf(s))
  /\ ~accumulatedResults[ConvOf(s)].isCurrentlyRecording =>
        Len(accumulatedResults[ConvOf(s)].recordingSegments) < MaxSegments
  /\ accumulatedResults' =
       [accumulatedResults EXCEPT ![ConvOf(s)] = startRecordingSession(@, now)]
  /\ UNCHANGED <<now, gatewayVars, conversationData, conversationSubjects, ws, upstreams, audioWait,
                 audioSent, frames, epoch, queueVars, dbVars, histVars>>

\* handleStopRecording: stop the meter, then one periodic save.
StopRecording(s) ==
  /\ Connected(s)
  /\ LET c == ConvOf(s)
         accs == IF MapHas(accumulatedResults, c)
                 THEN [accumulatedResults EXCEPT ![c] = stopRecordingSession(@, now)]
                 ELSE accumulatedResults
     IN /\ accumulatedResults' = accs
        /\ PeriodicSaveStep(accs, c, attr[s].activeOrganizationId)
  /\ UNCHANGED <<now, gatewayVars, conversationData, conversationSubjects, ws, upstreams, audioWait,
                 audioSent, frames, epoch, dbVars, histVars>>

\* The interval timer a handshake started fires.
PeriodicTick(t) ==
  /\ t \in timers
  /\ PeriodicSaveStep(accumulatedResults, ConvOf(t), attr[t].activeOrganizationId)
  /\ UNCHANGED <<now, gatewayVars, serviceVars, dbVars, histVars>>

\* A gate that passes every chunk of a registered session.
ChunkGateRegisteredOnly(registered, recording) ==
  IF ~registered THEN "no-session" ELSE "forward"

\* handleAudioChunk's two checks before the chunk is passed on.
ChunkGate(registered, recording) ==
  IF ~registered THEN "no-session"
  ELSE IF ~recording THEN "not-recording"
  ELSE "forward"

\* handleAudioChunk up to transcribeRealTime's await, and past it when the
\* connection promise is already resolved.
AudioChunk(s) ==
  /\ Connected(s)
  /\ s \notin audioWait
  /\ LET c == ConvOf(s)
         gate == ChunkGate(s \in sessionMap, isRecordingActive(accumulatedResults, c))
     IN
     IF gate # "forward"
     THEN /\ Len(emits[s]) < MaxEmits
          /\ emits' = [emits EXCEPT ![s] =
                         Append(@, IF gate = "no-session" THEN SessionNotInitialized
                                   ELSE RecordingNotStarted(c))]
          /\ UNCHANGED <<conversationSubjects, conversationData, ws, upstreams, audioWait, audioSent, frames,
                         conversationSubscriptions, subscribed>>
     ELSE
     /\ emits' = emits
     /\ conversationSubjects' = conversationSubjects \cup {c}
     /\ IF ~PromiseExists(c)
        THEN /\ conversationData' = conversationData \cup {c}
             /\ ws' = [ws EXCEPT ![c] = "connecting"]
             /\ upstreams' = NewWebSocket(c)
             /\ audioWait' = audioWait \cup {s}
             /\ UNCHANGED <<audioSent, frames, conversationSubscriptions, subscribed>>
        ELSE IF ws[c] \in {"connecting", "connecting-close"}
        THEN /\ audioWait' = audioWait \cup {s}
             /\ UNCHANGED <<conversationData, ws, upstreams, audioSent, frames, conversationSubscriptions,
                            subscribed>>
        ELSE /\ audioSent' = IF ws[c] = "open" THEN audioSent \cup {c} ELSE audioSent
             /\ frames' = IF ws[c] = "open" THEN [frames EXCEPT ![c] = SendAudio(@)]
                          ELSE frames
             /\ conversationSubscriptions' = conversationSubscriptions \cup {c}
             /\ subscribed' = IF c \in conversationSubscriptions THEN subscribed
                              ELSE Subscribes(c)
             /\ UNCHANGED <<conversationData, ws, upstreams, audioWait>>
  /\ UNCHANGED <<now, pc, dpc, attr, cleaningUp, periodicSaveIntervals, timers, sessionMap,
                 accumulatedResults, epoch, queueVars, dbVars, finLog, lastFinal>>

\* An audio_chunk from a client that sends audio only once its session is
\* registered and while it records.
ForwardedChunk(s) ==
  /\ ChunkGate(s \in sessionMap, isRecordingActive(accumulatedResults, ConvOf(s))) = "forward"
  /\ AudioChunk(s)

\* ------------------------------------------- handleDisconnect
\* closeConversation: ws.close() once the connection promise resolves.
ClosedBy(state) ==
  IF state = "open" THEN "closing"
  ELSE IF state = "connecting" THEN "connecting-close"
  ELSE state

\* Whether handleDisconnect reaches saveFinalTranscriptionWithRetry.
FinalWrites(org, res) ==
  /\ org # NoOrg
  /\ res.durationInMs # 0
  /\ ValidTargetLanguage(res.targetLanguage)

\* What a finalization found and did (history).
FinRecord(s, c, res, org, enq) ==
  [ sock |-> s, conv |-> c,
    epoch |-> IF MapHas(accumulatedResults, c) THEN accumulatedResults[c].epoch ELSE 0,
    ready |-> pc[s] = "ready",
    nsegs |-> IF MapHas(accumulatedResults, c)
              THEN Len(accumulatedResults[c].recordingSegments) ELSE 0,
    recorded |-> getRecordingDuration(accumulatedResults, c, now),
    errAfterData |-> MapHas(accumulatedResults, c) /\ accumulatedResults[c].errAfterData,
    langOk |-> MapHas(accumulatedResults, c)
               /\ ValidTargetLanguage(accumulatedResults[c].targetLanguage),
    finalSegments |-> IF MapHas(accumulatedResults, c)
                      THEN Len(accumulatedResults[c].finalOriginalSegments) ELSE 0,
    enqueued |-> FinalWrites(org, res),
    threw |-> FinalWrites(org, res) /\ enq.threw,
    usage |-> FinalWrites(org, res) /\ ~enq.threw,
    data |-> SaveData(c, org, res) ]

\* A guard that does not consult the cleaningUp set.
GuardedWithoutSet(s) == ConvOf(s) = NoConv

\* handleDisconnect's guard.
Guarded(s) == ConvOf(s) = NoConv \/ ConvOf(s) \in cleaningUp

\* handleDisconnect from its guard to the await of recordUsage, or to its
\* end when nothing is written or the enqueue throws.
Disconnect(s) ==
  /\ pc[s] # "idle"
  /\ dpc[s] = "none"
  /\ IF Guarded(s)
     THEN /\ dpc' = [dpc EXCEPT ![s] = "done"]
          /\ UNCHANGED <<cleaningUp, periodicSaveIntervals, timers, sessionMap,
                         conversationSubscriptions, serviceVars, queueVars, finLog>>
     ELSE LET c == ConvOf(s)
              org == attr[s].activeOrganizationId
              res == getConversationResults(accumulatedResults, c, now)
              enq == enqueue(queue, FinalOp(c, SaveData(c, org, res), nextEnq + 1))
              awaits == FinalWrites(org, res) /\ ~enq.threw
          IN /\ conversationSubscriptions' = conversationSubscriptions \ {c}
             /\ timers' = timers \ {periodicSaveIntervals[c]}
             /\ periodicSaveIntervals' = [periodicSaveIntervals EXCEPT ![c] = NoTimer]
             /\ sessionMap' = sessionMap \ {s}
             /\ ws' = [ws EXCEPT ![c] = ClosedBy(@)]
             /\ upstreams' = upstreams
             /\ queue' = IF FinalWrites(org, res) THEN enq.queue ELSE queue
             /\ nextEnq' = IF FinalWrites(org, res) THEN nextEnq + 1 ELSE nextEnq
             /\ finLog' = finLog \cup {FinRecord(s, c, res, org, enq)}
             /\ IF awaits
                THEN /\ dpc' = [dpc EXCEPT ![s] = "usage"]
                     /\ cleaningUp' = cleaningUp \cup {c}
                     /\ UNCHANGED <<accumulatedResults, conversationData,
                                    conversationSubjects>>
                ELSE /\ dpc' = [dpc EXCEPT ![s] = "done"]
                     /\ cleaningUp' = cleaningUp
                     /\ accumulatedResults' = CleanedAccumulators(c)
                     /\ conversationData' = conversationData \ {c}
                     /\ conversationSubjects' = conversationSubjects \ {c}
             /\ UNCHANGED <<audioWait, audioSent, frames, epoch, processing, inflight, retryTimers>>
  /\ subscribed' = IF Guarded(s) THEN subscribed
                   ELSE [subscribed EXCEPT ![ConvOf(s)] = 0]
  /\ UNCHANGED <<now, pc, attr, emits, dbVars, lastFinal>>

\* recordUsage has answered (or thrown): cleanupConversation, then the
\* finally block.
FinalizeResume(s) ==
  /\ dpc[s] = "usage"
  /\ dpc' = [dpc EXCEPT ![s] = "done"]
  /\ accumulatedResults' = CleanedAccumulators(ConvOf(s))
  /\ conversationData' = conversationData \ {ConvOf(s)}
  /\ conversationSubjects' = conversationSubjects \ {ConvOf(s)}
  /\ cleaningUp' = cleaningUp \ {ConvOf(s)}
  /\ UNCHANGED <<now, pc, attr, emits, periodicSaveIntervals, timers, sessionMap,
                 conversationSubscriptions, ws, upstreams, audioWait, audioSent, frames, epoch, queueVars,
                 dbVars, histVars>>

\* ------------------------------------------- the queue's workers
\* One run of processQueue (the 100 ms interval).
ProcessQueue ==
  /\ queue # <<>>
  /\ Cardinality(processing) < maxConcurrency
  /\ LET d == Dispatch(queue, processing, {}) IN
     /\ queue' = d.queue
     /\ processing' = d.processing
     /\ inflight' = inflight \cup d.started
  /\ UNCHANGED <<now, gatewayVars, serviceVars, retryTimers, nextEnq, dbVars, histVars>>

\* The datastore carries out an operation and processOperation returns.
OpSucceed(op) ==
  /\ op \in inflight
  /\ rows' = Upsert(rows, op)
  /\ inflight' = inflight \ {op}
  /\ processing' = processing \ {op.id}
  /\ lastFinal' = IF op.kind = "final" THEN [lastFinal EXCEPT ![op.conv] = op.enq]
                  ELSE lastFinal
  /\ UNCHANGED <<now, gatewayVars, serviceVars, queue, retryTimers, nextEnq, dbFailures,
                 quotaVars, shutdownVars, finLog, subscribed>>

\* The datastore call throws: the catch block counts the attempt and either
\* starts the retry timer or drops the operation.  At most maxFailures
\* failures are injected.
OpFails(op, retryable, maxFailures) ==
  /\ op \in inflight
  /\ dbFailures < maxFailures
  /\ dbFailures' = dbFailures + 1
  /\ inflight' = inflight \ {op}
  /\ processing' = processing \ {op.id}
  /\ retryTimers' =
       IF ShouldRetry(retryable, op.retries + 1, op.maxRetries)
       THEN retryTimers \cup {[op EXCEPT !.retries = @ + 1]}
       ELSE retryTimers
  /\ UNCHANGED <<now, gatewayVars, serviceVars, queue, nextEnq, rows, quotaVars,
                 shutdownVars, histVars>>

OpFail(op, retryable) == OpFails(op, retryable, MaxDbFailures)

\* A retry timer fires: the operation is pushed back, without a sort.
RetryFire(op) ==
  /\ op \in retryTimers
  /\ retryTimers' = retryTimers \ {op}
  /\ queue' = Append(queue, op)
  /\ UNCHANGED <<now, gatewayVars, serviceVars, processing, inflight, nextEnq, dbVars,
                 histVars>>

\* ---------------------------------------------------------- Next
\* The gateway and the service, with the sessions' enqueues; the queue's
\* workers do not run.
Next ==
  \/ Tick
  \/ \E s \in Sockets : HandshakeReject(s)
  \/ \E s \in Sockets, c \in Convs, lang \in Langs, org \in Orgs \cup {NoOrg},
        quota \in QuotaChecks : HandshakeBegin(s, c, lang, NoVocabularies, org, quota)
  \/ \E c \in Convs : UpstreamOpen(c)
  \/ \E c \in Convs : UpstreamConnectFail(c)
  \/ \E c \in Convs, tok \in Tokens : TokenMsg(c, tok)
  \/ \E c \in Convs : ErrorMsg(c)
  \/ \E c \in Convs : FinishedMsg(c)
  \/ \E c \in Convs : UpstreamError(c)
  \/ \E c \in Convs : UpstreamClose(c)
  \/ \E s \in Sockets : StartRecording(s)
  \/ \E s \in Sockets : StopRecording(s)
  \/ \E s \in Sockets : ForwardedChunk(s)
  \/ \E t \in Sockets : PeriodicTick(t)
  \/ \E s \in Sockets : Disconnect(s)
  \/ \E s \in Sockets : FinalizeResume(s)

Spec == Init /\ [][Next]_vars

\* The write queue's workers and the table, fed by sessions whose handshake
\* succeeds and whose upstream stays healthy.
NextQueue ==
  \/ Tick
  \/ \E s \in Sockets, c \in Convs, org \in Orgs : HandshakeBegin(s, c, "en", NoVocabularies, org, QuotaAllowed)
  \/ \E c \in Convs : UpstreamOpen(c)
  \/ \E c \in Convs, tok \in Tokens : TokenMsg(c, tok)
  \/ \E c \in Convs : UpstreamClose(c)
  \/ \E s \in Sockets : StartRecording(s)
  \/ \E s \in Sockets : StopRecording(s)
  \/ \E s \in Sockets : ForwardedChunk(s)
  \/ \E t \in Sockets : PeriodicTick(t)
  \/ \E s \in Sockets : Disconnect(s)
  \/ \E s \in Sockets : FinalizeResume(s)
  \/ ProcessQueue
  \/ \E op \in inflight : OpSucceed(op)
  \/ \E op \in inflight, retryable \in BOOLEAN : OpFail(op, retryable)
  \/ \E op \in retryTimers : RetryFire(op)

SpecQueue == Init /\ [][NextQueue]_vars

\* A client that reconnects with the conversationId of its previous connection
\* once that connection's handleDisconnect has returned; the clock runs long
\* enough for the second session to last.
TickReconnect ==
  /\ now < MaxReconnectTime
  /\ now' = now + 1
  /\ UNCHANGED <<gatewayVars, serviceVars, queueVars, dbVars, histVars>>

Reconnect(s, c, org) ==
  /\ s = "s2" => dpc["s1"] = "done"
  /\ HandshakeBegin(s, c, "en", NoVocabularies, org, QuotaAllowed)

NextReconnect ==
  \/ TickReconnect
  \/ \E s \in Sockets, c \in Convs, org \in Orgs : Reconnect(s, c, org)
  \/ \E c \in Convs : UpstreamOpen(c)
  \/ \E c \in Convs, tok \in Tokens : TokenMsg(c, tok)
  \/ \E c \in Convs : UpstreamClose(c)
  \/ \E s \in Sockets : StartRecording(s)
  \/ \E s \in Sockets : StopRecording(s)
  \/ \E s \in Sockets : ForwardedChunk(s)
  \/ \E t \in Sockets : PeriodicTick(t)
  \/ \E s \in Sockets : Disconnect(s)
  \/ \E s \in Sockets : FinalizeResume(s)
  \/ ProcessQueue
  \/ \E op \in inflight : OpSucceed(op)

SpecReconnect == Init /\ [][NextReconnect]_vars

\* The audio gate: clients that send audio_chunk at any moment of a
\* connection, recording or not, to sessions whose upstream stays healthy.
\* The clock stands still, so no session has a duration to write and
\* handleDisconnect never waits for the usage record.
NextGate ==
  \/ \E s \in Sockets, c \in Convs, org \in Orgs : HandshakeBegin(s, c, "en", NoVocabularies, org, QuotaAllowed)
  \/ \E c \in Convs : UpstreamOpen(c)
  \/ \E c \in Convs : UpstreamClose(c)
  \/ \E s \in Sockets : StartRecording(s)
  \/ \E s \in Sockets : StopRecording(s)
  \/ \E s \in Sockets : AudioChunk(s)
  \/ \E s \in Sockets : Disconnect(s)

SpecGate == Init /\ [][NextGate]_vars

\* The recording meter on its own: one accumulator, and any sequence of
\* startRecordingSession and stopRecordingSession calls as the clock runs.
TickMeter ==
  /\ now < MaxMeterTime
  /\ now' = now + 1
  /\ UNCHANGED <<gatewayVars, serviceVars, queueVars, dbVars, histVars>>

MeterCreate(c) ==
  /\ ~MapHas(accumulatedResults, c)
  /\ accumulatedResults' = MapSet(accumulatedResults, c, NewAccumulator("en", NoVocabularies, now, epoch[c] + 1))
  /\ epoch' = [epoch EXCEPT ![c] = @ + 1]
  /\ UNCHANGED <<now, gatewayVars, conversationData, conversationSubjects, ws, upstreams, audioWait,
                 audioSent, frames, queueVars, dbVars, histVars>>

MeterStart(c) ==
  /\ MapHas(accumulatedResults, c)
  /\ ~accumulatedResults[c].isCurrentlyRecording =>
        Len(accumulatedResults[c].recordingSegments) < MaxMeterSegments
  /\ accumulatedResults' = [accumulatedResults EXCEPT ![c] = startRecordingSession(@, now)]
  /\ UNCHANGED <<now, gatewayVars, conversationData, conversationSubjects, ws, upstreams, audioWait,
                 audioSent, frames, epoch, queueVars, dbVars, histVars>>

MeterStop(c) ==
  /\ MapHas(accumulatedResults, c)
  /\ accumulatedResults' = [accumulatedResults EXCEPT ![c] = stopRecordingSession(@, now)]
  /\ UNCHANGED <<now, gatewayVars, conversationData, conversationSubjects, ws, upstreams, audioWait,
                 audioSent, frames, epoch, queueVars, dbVars, histVars>>

NextMeter ==
  \/ TickMeter
  \/ \E c \in Convs : MeterCreate(c)
  \/ \E c \in Convs : MeterStart(c)
  \/ \E c \in Convs : MeterStop(c)

SpecMeter == Init /\ [][NextMeter]_vars

\* The token accumulator on its own: one accumulator, recording or not, and
\* any stream of up to MaxStreamLen tokens.
StreamToken(c, tok) ==
  /\ MapHas(accumulatedResults, c)
  /\ Len(accumulatedResults[c].tokenLog) < MaxStreamLen
  /\ accumulatedResults' =
       [accumulatedResults EXCEPT ![c] = AccumulateToken(@, tok, now)]
  /\ UNCHANGED <<now, gatewayVars, conversationData, conversationSubjects, ws, upstreams, audioWait,
                 audioSent, frames, epoch, queueVars, dbVars, histVars>>

NextStream ==
  \/ \E c \in Convs : MeterCreate(c)
  \/ \E c \in Convs, tok \in StreamTokens : StreamToken(c, tok)

SpecStream == Init /\ [][NextStream]_vars

\* One session from its handshake to its final write, with or without
\* vocabularies, data and an upstream error.
NextFinalWrite ==
  \/ Tick
  \/ \E c \in Convs, vocabularies \in Vocabularies, org \in Orgs :
        HandshakeBegin("s1", c, "en", vocabularies, org, QuotaAllowed)
  \/ \E c \in Convs : UpstreamOpen(c)
  \/ \E c \in Convs, tok \in Tokens : TokenMsg(c, tok)
  \/ \E c \in Convs : ErrorMsg(c)
  \/ StartRecording("s1")
  \/ StopRecording("s1")
  \/ ForwardedChunk("s1")
  \/ Disconnect("s1")
  \/ FinalizeResume("s1")

SpecFinalWrite == Init /\ [][NextFinalWrite]_vars

\* ------------------------------------- SubscriptionService: the calls
\* checkQuotaAvailability and recordUsage, one action per datastore call:
\* each runs from the answer of the previous query to the next await.
QuotaFrame ==
  UNCHANGED <<gatewayVars, serviceVars, queueVars, rows, dbFailures, shutdownVars, histVars>>

SetCall(p, call) == calls' = [calls EXCEPT ![p] = call]

\* remainingMinutes > 0
Admits(sub, used) == sub.plan.quotaMinutes - used > 0

\* checkQuotaAvailability from the usage it has read to its return or throw.
Decide(call, used) ==
  [call EXCEPT !.pc = "returned", !.used = used,
               !.outcome = IF Admits(CHOOSE sub \in call.subscription : TRUE, used)
                           THEN "allowed" ELSE "exceeded"]

\* What either method does with the period it has got: the check decides,
\* recordUsage goes on to increment it.
WithPeriod(call, row) ==
  IF call.kind = "check"
  THEN Decide([call EXCEPT !.period = row.periodStart], row.usageMinutes)
  ELSE [call EXCEPT !.pc = "incrementPeriod", !.period = row.periodStart]

TickQuota ==
  /\ now < MaxQuotaTime
  /\ \A p \in Callers : calls[p].pc \in {"idle", "returned"}
  /\ now' = now + 1
  /\ UNCHANGED <<gatewayVars, serviceVars, queueVars, dbVars, histVars>>

\* A caller enters checkQuotaAvailability or recordUsage(org, minutes).
CallStart(p, kind, minutes) ==
  /\ calls[p].pc \in {"idle", "returned"}
  /\ calls[p].n < MaxCalls
  /\ SetCall(p, [IdleCall EXCEPT !.pc = "findSubscription", !.kind = kind,
                                 !.n = calls[p].n + 1, !.minutes = minutes])
  /\ usageAsked' = IF kind = "record" THEN usageAsked + minutes ELSE usageAsked
  /\ UNCHANGED <<now, organizationSubscription, usagePeriod>>
  /\ QuotaFrame

\* organizationSubscription.findUnique answers.
FindSubscription(p) ==
  LET call == calls[p] IN
  /\ call.pc = "findSubscription"
  /\ SetCall(p,
       IF organizationSubscription = {}
       THEN [call EXCEPT !.pc = "returned", !.outcome = "error"]
       ELSE LET sub == CHOOSE sub \in organizationSubscription : TRUE
                found == [call EXCEPT !.subscription = {sub}, !.now = now]
            IN IF call.kind = "check" /\ sub.status # "active"
               THEN [found EXCEPT !.pc = "returned", !.outcome = "exceeded"]
               ELSE IF ~sub.plan.quotaResetsMonthly
               THEN IF call.kind = "check" THEN Decide(found, sub.lifetimeUsageMinutes)
                    ELSE [found EXCEPT !.pc = "incrementLifetime"]
               ELSE [found EXCEPT !.pc = "findCurrentPeriod"])
  /\ UNCHANGED <<now, organizationSubscription, usagePeriod, usageAsked>>
  /\ QuotaFrame

\* organizationSubscription.update with lifetimeUsageMinutes: {increment}.
IncrementLifetime(p) ==
  /\ calls[p].pc = "incrementLifetime"
  /\ organizationSubscription' =
       {[sub EXCEPT !.lifetimeUsageMinutes = @ + calls[p].minutes] :
          sub \in organizationSubscription}
  /\ SetCall(p, [calls[p] EXCEPT !.pc = "returned", !.outcome = "ok"])
  /\ UNCHANGED <<now, usagePeriod, usageAsked>>
  /\ QuotaFrame

\* getOrCreateCurrentPeriod up to its first await: the period dates, rolled
\* forward once when the subscription's period has ended.
PeriodDates(sub, t) ==
  IF sub.currentPeriodEnd # NullTime /\ t > sub.currentPeriodEnd
  THEN LET daysDiff == sub.currentPeriodEnd - sub.currentPeriodStart
           periodStart == sub.currentPeriodStart + daysDiff
       IN [rolled |-> TRUE, periodStart |-> periodStart,
           periodEnd |-> periodStart + MonthLength]
  ELSE [rolled |-> FALSE, periodStart |-> sub.currentPeriodStart,
        periodEnd |-> sub.currentPeriodEnd]

\* usagePeriod.findFirst({periodStart <= now, periodEnd >= now}) answers.
FindCurrentPeriod(p) ==
  LET call == calls[p]
      current == {row \in usagePeriod :
                    row.periodStart <= call.now /\ row.periodEnd >= call.now}
  IN
  /\ call.pc = "findCurrentPeriod"
  /\ IF current # {}
     THEN \E row \in current : SetCall(p, WithPeriod(call, row))
     ELSE LET dates == PeriodDates(CHOOSE sub \in call.subscription : TRUE, now) IN
          SetCall(p, [call EXCEPT !.periodStart = dates.periodStart,
                                  !.periodEnd = dates.periodEnd,
                                  !.pc = IF dates.rolled THEN "rollSubscription"
                                         ELSE "findPeriodByStart"])
  /\ UNCHANGED <<now, organizationSubscription, usagePeriod, usageAsked>>
  /\ QuotaFrame

\* organizationSubscription.update with the new period dates.
RollSubscription(p) ==
  /\ calls[p].pc = "rollSubscription"
  /\ organizationSubscription' =
       {[sub EXCEPT !.currentPeriodStart = calls[p].periodStart,
                    !.currentPeriodEnd = calls[p].periodEnd] :
          sub \in organizationSubscription}
  /\ SetCall(p, [calls[p] EXCEPT !.pc = "findPeriodByStart"])
  /\ UNCHANGED <<now, usagePeriod, usageAsked>>
  /\ QuotaFrame

\* usagePeriod.findFirst({subscriptionId, periodStart}) answers.
FindPeriodByStart(p) ==
  LET call == calls[p]
      found == {row \in usagePeriod : row.periodStart = call.periodStart}
  IN
  /\ call.pc = "findPeriodByStart"
  /\ IF found # {}
     THEN \E row \in found : SetCall(p, WithPeriod(call, row))
     ELSE SetCall(p, [call EXCEPT !.pc = "createPeriod",
                                  !.periodEnd = IF @ = NullTime THEN now + MonthLength
                                                ELSE @])
  /\ UNCHANGED <<now, organizationSubscription, usagePeriod, usageAsked>>
  /\ QuotaFrame

\* usagePeriod.create answers: the row, or the unique index on
\* (subscriptionId, periodStart) rejects it and the call throws.
CreatePeriod(p) ==
  LET call == calls[p]
      row == UsagePeriodRow(call.periodStart, call.periodEnd, 0)
  IN
  /\ call.pc = "createPeriod"
  /\ IF \E other \in usagePeriod : other.periodStart = call.periodStart
     THEN /\ SetCall(p, [call EXCEPT !.pc = "returned", !.outcome = "error"])
          /\ usagePeriod' = usagePeriod
     ELSE /\ SetCall(p, WithPeriod(call, row))
          /\ usagePeriod' = usagePeriod \cup {row}
  /\ UNCHANGED <<now, organizationSubscription, usageAsked>>
  /\ QuotaFrame

\* usagePeriod.update with usageMinutes: {increment}.
IncrementPeriod(p) ==
  /\ calls[p].pc = "incrementPeriod"
  /\ usagePeriod' =
       {IF row.periodStart = calls[p].period
        THEN [row EXCEPT !.usageMinutes = @ + calls[p].minutes] ELSE row :
          row \in usagePeriod}
  /\ SetCall(p, [calls[p] EXCEPT !.pc = "returned", !.outcome = "ok"])
  /\ UNCHANGED <<now, organizationSubscription, usageAsked>>
  /\ QuotaFrame

\* One caller at a time, as the clock runs: quota checks and usage records
\* on any stored subscription state.
NextQuota ==
  \/ TickQuota
  \/ \E kind \in {"check", "record"} : CallStart("p1", kind, 1)
  \/ FindSubscription("p1")
  \/ IncrementLifetime("p1")
  \/ FindCurrentPeriod("p1")
  \/ RollSubscription("p1")
  \/ FindPeriodByStart("p1")
  \/ CreatePeriod("p1")
  \/ IncrementPeriod("p1")

SpecQuota == InitQuota /\ [][NextQuota]_vars

\* Two callers record usage for the organization concurrently; the clock
\* moves between their calls.
NextUsage ==
  \/ TickQuota
  \/ \E p \in Callers : CallStart(p, "record", 1)
  \/ \E p \in Callers : FindSubscription(p)
  \/ \E p \in Callers : IncrementLifetime(p)
  \/ \E p \in Callers : FindCurrentPeriod(p)
  \/ \E p \in Callers : RollSubscription(p)
  \/ \E p \in Callers : FindPeriodByStart(p)
  \/ \E p \in Callers : CreatePeriod(p)
  \/ \E p \in Callers : IncrementPeriod(p)

SpecUsage == InitQuota /\ [][NextUsage]_vars

\* ------------------------------------- DatabaseQueueService on its own
\* The results a write of this specification carries.
WorkerResults == [EmptyResults EXCEPT !.targetLanguage = "en", !.durationInMs = 1]

\* A caller enqueues a periodic write, or a final write, at time t: now or
\* later.
EnqueueWrite(c, kind, t) ==
  /\ nextEnq < MaxWorkerOps
  /\ now' = t
  /\ queue' = enqueue(queue,
                 IF kind = "final"
                 THEN FinalOp(c, SaveData(c, "orgA", WorkerResults), nextEnq + 1)
                 ELSE PeriodicOp(c, "orgA", WorkerResults, t, nextEnq + 1)).queue
  /\ nextEnq' = nextEnq + 1
  /\ UNCHANGED <<gatewayVars, serviceVars, processing, inflight, retryTimers,
                 dbVars, histVars>>

\* A loop condition that looks at the queue only.
FlushWaitsForQueue(q, proc) == q # <<>>

\* while (queue.length > 0 || processing.size > 0)
FlushWaits(q, proc) == q # <<>> \/ proc # {}

\* flush() is called, or the timeout it sleeps on fires: the loop condition
\* is tested, and flush sleeps again or returns.
FlushStep ==
  /\ flushing.pc \in {"idle", "waiting"}
  /\ FlushWaits(queue, processing) => flushing.waits < MaxFlushWaits
  /\ flushing' = IF FlushWaits(queue, processing)
                 THEN [pc |-> "waiting", waits |-> flushing.waits + 1]
                 ELSE [flushing EXCEPT !.pc = "returned"]
  /\ UNCHANGED <<now, gatewayVars, serviceVars, queueVars, rows, dbFailures, quotaVars,
                 histVars>>

NextWorkers ==
  \/ \E c \in Convs, t \in now..MaxWorkerTime : EnqueueWrite(c, "periodic", t)
  \/ \E c \in Convs : EnqueueWrite(c, "final", now)
  \/ ProcessQueue
  \/ \E op \in inflight : OpSucceed(op)
  \/ \E op \in inflight, retryable \in BOOLEAN : OpFails(op, retryable, MaxWorkerFailures)
  \/ \E op \in retryTimers : RetryFire(op)
  \/ FlushStep

SpecWorkers == Init /\ [][NextWorkers]_vars

\* The same with the scheduling the service relies on: the setInterval of
\* startQueueProcessor keeps running processQueue, every datastore call
\* answers, and every retry timer fires.
DatastoreAnswers ==
  \E op \in inflight :
     \/ OpSucceed(op)
     \/ \E retryable \in BOOLEAN : OpFails(op, retryable, MaxWorkerFailures)

RetryFires == \E op \in retryTimers : RetryFire(op)

SpecWorkersFair ==
  /\ SpecWorkers
  /\ WF_vars(ProcessQueue)
  /\ WF_vars(DatastoreAnswers)
  /\ WF_vars(RetryFires)

\* --------------------------------------- connections of two owners
\* Two clients of different organizations that name the same conversation
\* in their handshake; the upstream stays healthy and the datastore answers.
OwnerOf(s) == IF s = "s1" THEN "orgA" ELSE "orgB"

NextOwners ==
  \/ Tick
  \/ \E s \in Sockets, c \in Convs :
        HandshakeBegin(s, c, "en", NoVocabularies, OwnerOf(s), QuotaAllowed)
  \/ \E c \in Convs : UpstreamOpen(c)
  \/ \E c \in Convs, tok \in Tokens : TokenMsg(c, tok)
  \/ \E s \in Sockets : StartRecording(s)
  \/ \E s \in Sockets : StopRecording(s)
  \/ \E s \in Sockets : ForwardedChunk(s)
  \/ \E s \in Sockets : Disconnect(s)
  \/ \E s \in Sockets : FinalizeResume(s)
  \/ ProcessQueue
  \/ \E op \in inflight : OpSucceed(op)

SpecOwners == Init /\ [][NextOwners]_vars

\* ================================================================ claims
TerminalStatuses == {"COMPLETED", "NO_DATA", "FAILED"}
AllOps == {queue[i] : i \in 1..Len(queue)} \cup inflight \cup retryTimers

\* C1: once the final write of a conversation has been applied, applying a
\* periodic operation that was enqueued before that final one does not take
\* the row out of its terminal status.
C1_NoPeriodicAfterFinal ==
  [][\A op \in inflight :
       (OpSucceed(op) /\ op.kind = "periodic" /\ op.enq < lastFinal[op.conv]) =>
          \A r \in rows, r2 \in rows' :
             (r.id = op.conv /\ r2.id = op.conv /\ r.status \in TerminalStatuses)
                => r2.status \in TerminalStatuses]_vars

\* C2: a finalization of a connected session in which start_recording was
\* never applied enqueues no write and does not reach recordUsage.
C2_NoWriteWithoutRecording ==
  \A f \in finLog : (f.ready /\ f.nsegs = 0) => (~f.enqueued /\ ~f.usage)

\* C3: a finalization of a connected session that has recorded for a
\* positive duration (the segment in progress included) and has a non-blank
\* target language enqueues the final write.
C3_RecordedSessionIsWritten ==
  \A f \in finLog : (f.ready /\ f.recorded > 0 /\ f.langOk) => f.enqueued

\* C4: for an accumulator with at least one recording segment, the
\* durationInMs of getConversationResults equals getRecordingDuration at
\* every instant.
C4_ResultsDurationIsCurrentDuration ==
  \A c \in DOMAIN accumulatedResults :
     Len(accumulatedResults[c].recordingSegments) >= 1 =>
        getConversationResults(accumulatedResults, c, now).durationInMs
          = getRecordingDuration(accumulatedResults, c, now)

UpstreamFailure(c) ==
  ErrorMsg(c) \/ UpstreamError(c) \/ UpstreamClose(c) \/ UpstreamConnectFail(c)

PreservedBut(old, new) ==
  [new EXCEPT !.hasError = old.hasError, !.errAfterData = old.errAfterData] = old

C6_FailuresPreserveAccumulator ==
  [][\A c \in Convs :
       (UpstreamFailure(c) /\ MapHas(accumulatedResults, c)) =>
          /\ MapHas(accumulatedResults', c)
          /\ PreservedBut(accumulatedResults[c], accumulatedResults'[c])]_vars

\* C7: a periodic operation is not dispatched while a final operation of
\* the same conversation that was enqueued before it is still waiting (in
\* the queue or for its retry).
C7_FinalNotOvertaken ==
  [][\A p \in inflight' \ inflight :
       p.kind = "periodic" =>
          ~\E f \in {queue'[i] : i \in 1..Len(queue')} \cup retryTimers :
              f.kind = "final" /\ f.conv = p.conv /\ f.enq < p.enq]_vars

\* C8: each operation the dispatcher pops has the highest priority of the
\* operations queued at that moment and, among equal priorities, the
\* earliest enqueue.
PoppedInOrder(q, k) ==
  \A i \in 1..k : \A j \in (i + 1)..Len(q) :
     \/ q[i].priority > q[j].priority
     \/ q[i].priority = q[j].priority /\ q[i].enq <= q[j].enq

C8_PopsHighestPriority ==
  [][Len(queue') < Len(queue) => PoppedInOrder(queue, Len(queue) - Len(queue'))]_vars

\* C9: for one session of a conversation (one accumulator), at most one
\* disconnect enqueues the final write and at most one reaches recordUsage.
C9_FinalizedOncePerSession ==
  \A f, g \in finLog :
     (f.conv = g.conv /\ f.epoch = g.epoch) =>
        /\ (f.enqueued /\ g.enqueued) => f = g
        /\ (f.usage /\ g.usage) => f = g

C9_Witness ==
  \E s, s2 \in Sockets :
     /\ s # s2 /\ ConvOf(s) = ConvOf(s2)
     /\ dpc[s] = "usage"
     /\ pc[s2] = "ready" /\ dpc[s2] = "done"
     /\ \E f \in finLog : f.sock = s /\ f.enqueued /\ f.usage
     /\ ~\E f \in finLog : f.sock = s2

\* C10: every operation a session enqueued is an upsert keyed on the
\* session's conversationId, and the table holds at most one row per id, each
\* under the conversationId of a session.
C10_OneRowPerConversation ==
  /\ \A op \in AllOps :
        op.type = "upsert" /\ op.where = op.conv /\ op.create.id = op.conv
  /\ \A r1, r2 \in rows : r1.id = r2.id => r1 = r2
  /\ \A r \in rows : \E s \in Sockets : r.id = ConvOf(s)

C10_Witness ==
  \E op \in inflight, r \in rows : op.kind = "final" /\ r.id = op.where
                                   /\ r.status = "IN_PROGRESS"

\* C11: applying a final write never takes a row from COMPLETED to NO_DATA
\* and never replaces a stored transcript with null, whatever connects and
\* disconnects used the conversationId.
C11_FinalKeepsCompleted ==
  [][\A op \in inflight :
       (OpSucceed(op) /\ op.kind = "final") =>
          \A r \in rows, r2 \in rows' :
             (r.id = r2.id /\ r.status = "COMPLETED") =>
                /\ r2.status # "NO_DATA"
                /\ ~r.transcriptionResult.null => ~r2.transcriptionResult.null]_vars

\* C12: an audio_chunk received while the meter is not recording is answered
\* with transcription:error RECORDING_NOT_STARTED and nothing is forwarded;
\* audio reaches the upstream only for chunks received while recording.
NothingForwarded ==
  audioSent' = audioSent /\ audioWait' = audioWait /\ ws' = ws

ForwardedOnlyWhileRecording ==
  /\ \A s \in audioWait' \ audioWait :
        AudioChunk(s) /\ isRecordingActive(accumulatedResults, ConvOf(s))
  /\ \A c \in audioSent' \ audioSent :
        \/ \E s \in Sockets : /\ ConvOf(s) = c /\ AudioChunk(s)
                               /\ isRecordingActive(accumulatedResults, c)
        \/ UpstreamOpen(c) /\ AudioWaiters(c) # {}

\* As stated: every chunk received while not recording gets the coded error.
C12_NotRecordingGetsCodedError ==
  [][/\ \A s \in Sockets :
          (AudioChunk(s) /\ ~isRecordingActive(accumulatedResults, ConvOf(s))) =>
             /\ emits'[s] = Append(emits[s], RecordingNotStarted(ConvOf(s)))
             /\ NothingForwarded
     /\ ForwardedOnlyWhileRecording]_vars

\* C12, amended: the coded error answers the chunks of a registered session;
\* a socket without a registered session gets the uncoded error.
C12_GateRejectsAndDrops ==
  [][/\ \A s \in Sockets :
          (AudioChunk(s) /\ ~isRecordingActive(accumulatedResults, ConvOf(s))) =>
             /\ emits'[s] = Append(emits[s], IF s \in sessionMap
                                              THEN RecordingNotStarted(ConvOf(s))
                                              ELSE SessionNotInitialized)
             /\ NothingForwarded
     /\ ForwardedOnlyWhileRecording]_vars

C12_Witness ==
  \E s \in Sockets :
     /\ s \in sessionMap
     /\ emits[s] = <<RecordingNotStarted(ConvOf(s))>>
     /\ MapHas(accumulatedResults, ConvOf(s))
     /\ Len(accumulatedResults[ConvOf(s)].recordingSegments) > 0
     /\ ConvOf(s) \in audioSent

\* C13: in every meter state, isCurrentlyRecording holds iff
\* recordingStartTime is set iff the last segment has no end time.
LastSegmentOpen(acc) ==
  /\ Len(acc.recordingSegments) > 0
  /\ acc.recordingSegments[Len(acc.recordingSegments)].endTime = NullTime

C13_MeterInvariant ==
  \A c \in DOMAIN accumulatedResults :
     LET acc == accumulatedResults[c] IN
     /\ acc.isCurrentlyRecording <=> acc.recordingStartTime # NullTime
     /\ acc.isCurrentlyRecording <=> LastSegmentOpen(acc)

C13_Witness ==
  \E c \in DOMAIN accumulatedResults :
     /\ Len(accumulatedResults[c].recordingSegments) = 2
     /\ accumulatedResults[c].isCurrentlyRecording
     /\ accumulatedResults[c].totalRecordingDurationMs > 0

\* C14: a start_recording that follows a start_recording leaves the meter as
\* the first left it, and a stop_recording while not recording leaves the
\* total and the segment list as they were.
C14_StartStopIdempotent ==
  \A c \in DOMAIN accumulatedResults : \A t \in now..MaxMeterTime :
     LET acc == accumulatedResults[c]
         once == startRecordingSession(acc, now)
     IN /\ startRecordingSession(once, t) = once
        /\ ~acc.isCurrentlyRecording =>
              /\ stopRecordingSession(acc, t).totalRecordingDurationMs
                    = acc.totalRecordingDurationMs
              /\ stopRecordingSession(acc, t).recordingSegments = acc.recordingSegments

C14_Witness ==
  \E c \in DOMAIN accumulatedResults :
     /\ accumulatedResults[c].isCurrentlyRecording
     /\ accumulatedResults[c].recordingStartTime < now
     /\ Len(accumulatedResults[c].recordingSegments) = 2

\* C15: the total recording time is the sum of (end - start) over the closed
\* segments; the time between a stop and the next start adds nothing.
RECURSIVE SumClosed(_)
SumClosed(segments) ==
  IF segments = <<>> THEN 0
  ELSE LET seg == Head(segments) IN
       (IF seg.endTime = NullTime THEN 0 ELSE seg.endTime - seg.startTime)
         + SumClosed(Tail(segments))

C15_TotalIsSumOfClosedSegments ==
  \A c \in DOMAIN accumulatedResults :
     accumulatedResults[c].totalRecordingDurationMs
       = SumClosed(accumulatedResults[c].recordingSegments)

C15_Witness ==
  \E c \in DOMAIN accumulatedResults :
     LET segs == accumulatedResults[c].recordingSegments IN
     /\ Len(segs) = 2
     /\ segs[1].endTime # NullTime /\ segs[2].endTime # NullTime
     /\ segs[1].endTime > segs[1].startTime
     /\ segs[2].startTime > segs[1].endTime
     /\ segs[2].endTime > segs[2].startTime

\* C16: while the meter records the duration read does not decrease, and
\* while it does not record the duration read does not change, for both
\* readers of the duration.
DurationReaders(accs, c, t) ==
  <<getRecordingDuration(accs, c, t), getConversationResults(accs, c, t).durationInMs>>

C16_DurationMonotone ==
  [][\A c \in DOMAIN accumulatedResults :
       (c \in DOMAIN accumulatedResults'
          /\ accumulatedResults'[c].epoch = accumulatedResults[c].epoch
          /\ accumulatedResults'[c].isCurrentlyRecording
                = accumulatedResults[c].isCurrentlyRecording) =>
          LET before == DurationReaders(accumulatedResults, c, now)
              after == DurationReaders(accumulatedResults', c, now')
          IN \A i \in 1..2 :
                IF accumulatedResults[c].isCurrentlyRecording
                THEN after[i] >= before[i]
                ELSE after[i] = before[i]]_vars

\* The tokens of the log that belong to a track, and of them the ones
\* handleSonioxMessage hands to appendFinalSegment.
OnTrack(tok, track) ==
  (tok.translation_status = "translation") <=> (track = "translation")

IsFinalToken(tok) == tok.is_final

IsSegmentToken(tok) ==
  tok.is_final /\ tok.speaker # NoSpeaker /\ ~IsEndMarker(tok.text)

FinalsOn(log, track) ==
  SelectSeq(log, LAMBDA tok : OnTrack(tok, track) /\ IsFinalToken(tok))

SegmentTokensOn(log, track) ==
  SelectSeq(log, LAMBDA tok : OnTrack(tok, track) /\ IsSegmentToken(tok))

Runs(toks) ==
  Cardinality({i \in 1..Len(toks) : i = 1 \/ toks[i].speaker # toks[i - 1].speaker})

RECURSIVE ConcatText(_)
ConcatText(recs) ==
  IF recs = <<>> THEN "" ELSE Head(recs).text \o ConcatText(Tail(recs))

SegmentsOf(acc, track) ==
  IF track = "translation" THEN acc.finalTranslationSegments ELSE acc.finalOriginalSegments

SegmentsGroup(segments, toks) ==
  /\ Len(segments) = Runs(toks)
  /\ \A i \in 1..(Len(segments) - 1) : segments[i].role # segments[i + 1].role
  /\ ConcatText(segments) = ConcatText(toks)

\* C17 as stated: on each track the final segment list groups all the final
\* tokens of the stream into speaker runs and keeps all their text.
C17_SegmentsGroupAllFinals ==
  \A c \in DOMAIN accumulatedResults : \A track \in {"original", "translation"} :
     SegmentsGroup(SegmentsOf(accumulatedResults[c], track),
                   FinalsOn(accumulatedResults[c].tokenLog, track))

\* C17: on each track the final segment list has one record per maximal run
\* of consecutive final tokens of one speaker, counting the final tokens that
\* carry a speaker and are not the "<end>" marker; adjacent records differ in
\* role, and the records' text concatenated is those tokens' text in order.
C17_SegmentsGroupSpeakerFinals ==
  \A c \in DOMAIN accumulatedResults : \A track \in {"original", "translation"} :
     SegmentsGroup(SegmentsOf(accumulatedResults[c], track),
                   SegmentTokensOn(accumulatedResults[c].tokenLog, track))

C17_Witness ==
  \E c \in DOMAIN accumulatedResults :
     LET segs == accumulatedResults[c].finalOriginalSegments IN
     /\ Len(accumulatedResults[c].tokenLog) = 4
     /\ [i \in 1..Len(segs) |-> <<segs[i].role, segs[i].text>>]
          = << <<"Speaker 1", "AB">>, <<"Speaker 2", "C">>, <<"Speaker 1", "D">> >>

\* The results a write carries or has stored, and the text of the partial
\* tokens the accumulators hold.
PersistedResults ==
  UNION { {op.create.transcriptionResult, op.create.translationResult,
           op.update.transcriptionResult, op.update.translationResult} : op \in AllOps }
    \cup UNION { {r.transcriptionResult, r.translationResult} : r \in rows }

PartialTexts ==
  UNION { {accumulatedResults[c].tokenLog[i].text :
             i \in {j \in 1..Len(accumulatedResults[c].tokenLog) :
                      ~accumulatedResults[c].tokenLog[j].is_final}} :
          c \in DOMAIN accumulatedResults }

InLiveBuffers(text) ==
  \E c \in DOMAIN accumulatedResults :
     \/ \E i \in 1..Len(accumulatedResults[c].originalTokens) :
           accumulatedResults[c].originalTokens[i] = text
     \/ \E i \in 1..Len(accumulatedResults[c].translationTokens) :
           accumulatedResults[c].translationTokens[i] = text

SerializesFinalSegments(op, accs) ==
  LET orig == IF MapHas(accs, op.conv) THEN accs[op.conv].finalOriginalSegments ELSE <<>>
      tran == IF MapHas(accs, op.conv) THEN accs[op.conv].finalTranslationSegments ELSE <<>>
  IN /\ op.create.transcriptionResult \in {Json(orig), JsonNull}
     /\ op.create.translationResult \in {Json(tran), JsonNull}
     /\ op.update.transcriptionResult = op.create.transcriptionResult
     /\ op.update.translationResult = op.create.translationResult

\* C18: the results of every periodic and final write enqueued are the
\* serialized final segment lists of the moment (or null), and no persisted
\* result holds the text of a partial token, which the live buffers do hold.
C18_PersistedAreFinalSegments ==
  /\ [][\A i \in 1..Len(queue') :
          (nextEnq' # nextEnq /\ queue'[i].enq = nextEnq') =>
             SerializesFinalSegments(queue'[i], accumulatedResults)]_vars
  /\ [](\A text \in PartialTexts :
          /\ InLiveBuffers(text)
          /\ \A result \in PersistedResults :
                \A i \in 1..Len(result.v) : result.v[i].text # text)

C18_Witness ==
  \E op \in AllOps :
     /\ op.kind = "periodic"
     /\ ~op.create.translationResult.null
     /\ MapHas(accumulatedResults, op.conv)
     /\ \E text \in PartialTexts : InLiveBuffers(text)

\* The final write enqueued by the step, if any.
FinalEnqueued ==
  {queue'[i] : i \in {j \in 1..Len(queue') :
                        /\ nextEnq' # nextEnq
                        /\ queue'[j].enq = nextEnq'
                        /\ queue'[j].kind = "final"}}

StatusAndResultsFollowFlags(op, acc) ==
  /\ op.create.status = IF acc.hasReceivedData THEN "COMPLETED"
                        ELSE IF acc.hasError THEN "FAILED" ELSE "NO_DATA"
  /\ op.create.transcriptionResult.null <=> ~acc.hasReceivedData
  /\ op.create.translationResult.null <=> ~acc.hasReceivedData

\* C19 as stated: the vocabularies of a final write are null exactly when
\* nothing was received.
C19_FinalWriteNullsExactly ==
  [][\A op \in FinalEnqueued :
       LET acc == accumulatedResults[op.conv] IN
       /\ StatusAndResultsFollowFlags(op, acc)
       /\ op.create.vocabularies.null <=> ~acc.hasReceivedData]_vars

\* C19: a final write enqueued has status COMPLETED if data was received,
\* else FAILED if an error was flagged, else NO_DATA; its transcriptionResult
\* and translationResult are null exactly when nothing was received, and its
\* vocabularies are the session's (null if it has none) when data was
\* received and null otherwise.
C19_FinalWriteFollowsFlags ==
  [][\A op \in FinalEnqueued :
       LET acc == accumulatedResults[op.conv] IN
       /\ StatusAndResultsFollowFlags(op, acc)
       /\ op.create.vocabularies =
            IF acc.hasReceivedData THEN acc.vocabularies ELSE NoVocabularies]_vars

C19_Witness ==
  /\ \E op \in AllOps :
       /\ op.kind = "final"
       /\ op.create.status = "COMPLETED"
       /\ ~op.create.transcriptionResult.null
       /\ op.create.vocabularies.null
  /\ \E r \in finLog : r.errAfterData

\* The quota:exceeded events among what a socket was sent.
QuotaEvents(s) ==
  {i \in 1..Len(emits[s]) : emits[s][i].name = "quota:exceeded"}

\* A socket's handshake in which checkQuotaAvailability throws
\* QuotaExceededException.
QuotaExceededAtConnect(s, quota) ==
  /\ quota.outcome = "exceeded"
  /\ \E c \in Convs, lang \in Langs, org \in Orgs :
        HandshakeBegin(s, c, lang, NoVocabularies, org, quota)

\* C20: a handshake whose quota check throws QUOTA_EXCEEDED sends the client
\* one quota:exceeded event with the exception's error and data, disconnects
\* the socket, opens no upstream connection and registers no session and no
\* periodic timer; the socket is never sent a second quota:exceeded event and
\* never gets a session or timer.
C20_QuotaExceededRejects ==
  /\ [][\A s \in Sockets : \A quota \in QuotaChecks :
          QuotaExceededAtConnect(s, quota) =>
            /\ emits'[s] = emits[s] \o
                  << [ name |-> "quota:exceeded", error |-> "QUOTA_EXCEEDED",
                       data |-> [ currentPlan |-> quota.plan,
                                  quotaMinutes |-> QuotaMinutes,
                                  usedMinutes |-> quota.usedMinutes,
                                  upgradeRequired |-> TRUE ] ] >>
            /\ pc'[s] = "rejected"
            /\ ws' = ws /\ conversationData' = conversationData
            /\ accumulatedResults' = accumulatedResults
            /\ sessionMap' = sessionMap /\ timers' = timers
            /\ periodicSaveIntervals' = periodicSaveIntervals]_vars
  /\ [](\A s \in Sockets :
          QuotaEvents(s) # {} =>
            /\ Cardinality(QuotaEvents(s)) = 1
            /\ pc[s] = "rejected"
            /\ s \notin sessionMap /\ s \notin timers
            /\ \A c \in Convs : periodicSaveIntervals[c] # s)

C20_Witness ==
  \E s \in Sockets :
     /\ pc[s] = "rejected"
     /\ dpc[s] = "done"
     /\ emits[s] = << [ name |-> "quota:exceeded", error |-> "QUOTA_EXCEEDED",
                        data |-> [ currentPlan |-> "Free", quotaMinutes |-> 60,
                                   usedMinutes |-> 60, upgradeRequired |-> TRUE ] ] >>

\* The usage a quota check should read: the lifetime counter, or the usage
\* of the period that holds the moment of the call (none used yet when no
\* such period is stored).
CurrentUsage(sub, periods, t) ==
  IF ~sub.plan.quotaResetsMonthly THEN {sub.lifetimeUsageMinutes}
  ELSE LET current == {row \in periods : row.periodStart <= t /\ t <= row.periodEnd}
       IN IF current = {} THEN {0} ELSE {row.usageMinutes : row \in current}

CheckReturns(p) ==
  /\ calls[p].kind = "check"
  /\ calls[p].pc # "returned"
  /\ calls'[p].pc = "returned"

\* C21: a quota check admits exactly when the subscription exists, is active
\* and quotaMinutes - used > 0, with used the lifetime usage of a lifetime
\* plan and the current period's usage of a monthly plan.
C21_AdmitsIffQuotaLeft ==
  [][\A p \in Callers : CheckReturns(p) =>
       (calls'[p].outcome = "allowed" <=>
          \E sub \in organizationSubscription :
             /\ sub.status = "active"
             /\ \E used \in CurrentUsage(sub, usagePeriod, now) :
                   sub.plan.quotaMinutes - used > 0)]_vars

\* C27: once the concurrent recordUsage calls of an organization that has a
\* subscription have all returned, the usage stored is the usage at the start
\* plus the minutes of every call, and no two usage periods share a start.
C27_EveryCallIsAdded ==
  (organizationSubscription # {}
     /\ \A p \in Callers : calls[p].pc \in {"idle", "returned"}) =>
    /\ TotalUsage(organizationSubscription, usagePeriod) = usageAsked
    /\ \A r1, r2 \in usagePeriod : r1.periodStart = r2.periodStart => r1 = r2

\* C28: the usage period a quota check reads or a usage record increments
\* holds the moment of the call between its start and its end.
C28_PeriodHoldsNow ==
  [][\A p \in Callers :
       (calls[p].period = NoPeriod /\ calls'[p].period # NoPeriod) =>
          \A row \in usagePeriod' :
             row.periodStart = calls'[p].period =>
                row.periodStart <= now /\ now <= row.periodEnd]_vars

\* The operations that wait for an execution or are in one.
PendingOps == {queue[i] : i \in 1..Len(queue)} \cup retryTimers \cup inflight

FailsNow(op) == op \in inflight /\ op \notin inflight' /\ dbFailures' # dbFailures

Requeued(op) == \E again \in retryTimers' : again.id = op.id /\ again.enq = op.enq

\* C22: an operation that waits for an execution, or is in one, has failed
\* fewer than maxRetries times, so it is executed at most maxRetries times;
\* a failed execution is re-queued only below that count, never after an
\* error that is not retryable, and its id leaves the in-flight set whether
\* it is re-queued or dropped.
C22_RetriesBounded ==
  /\ [](\A op \in PendingOps : op.retries < op.maxRetries /\ op.maxRetries = DefaultMaxRetries)
  /\ [][\A op \in inflight : FailsNow(op) =>
          /\ Requeued(op) => op.retries + 1 < op.maxRetries
          /\ OpFails(op, FALSE, MaxWorkerFailures) => ~Requeued(op)
          /\ op.id \notin processing'
          /\ queue' = queue]_vars

C22_Witness ==
  /\ nextEnq = 1
  /\ dbFailures = DefaultMaxRetries
  /\ PendingOps = {}
  /\ rows = {}

\* C23: at most maxConcurrency operations are in flight, one per id in the
\* processing set, and no two of them have the same id.
C23_AtMostThreeInFlight ==
  /\ Cardinality(inflight) <= maxConcurrency
  /\ Cardinality(processing) <= maxConcurrency
  /\ {op.id : op \in inflight} = processing
  /\ \A op1, op2 \in inflight : op1.id = op2.id => op1 = op2

C23_Witness ==
  /\ Cardinality(inflight) = maxConcurrency
  /\ \E i \in 1..Len(queue) : queue[i].id \in processing

\* C24: when flush returns, the queue and the in-flight set are both empty.
C24_FlushReturnsWhenDrained ==
  [][(flushing.pc # "returned" /\ flushing'.pc = "returned") =>
        (queue' = <<>> /\ processing' = {} /\ inflight' = {})]_vars

C24_Witness ==
  /\ flushing.pc = "returned"
  /\ flushing.waits > 0
  /\ rows # {}

\* C25: at most one subscription to the result channel is created for a
\* conversation between the connect and the disconnect of its session.
C25_SubscribesOnce ==
  \A c \in Convs : subscribed[c] <= 1

\* C26: a finalization calls recordUsage exactly when it has put its final
\* write on the queue.
C26_UsageIffFinalEnqueued ==
  \A r \in finLog : r.usage <=> r.enqueued

\* C29: no write applied to a Transcription row lowers its durationInMs.
C29_AppliedDurationsNeverDecrease ==
  [][\A before \in rows : \A after \in rows' :
       after.id = before.id => after.durationInMs >= before.durationInMs]_vars

\* The step in which a socket's handshake fails and the socket is
\* disconnected.
HandshakeFails(s) == pc[s] # "rejected" /\ pc'[s] = "rejected"

\* The step is a handshake whose quota check throws QuotaExceededException.
QuotaExceededRaised(s) ==
  \E quota \in QuotaChecks, c \in Convs, lang \in Langs, org \in Orgs,
     vocabularies \in Vocabularies \cup {NoVocabularies} :
       /\ quota.outcome = "exceeded"
       /\ HandshakeBegin(s, c, lang, vocabularies, org, quota)

\* What the step sends to socket s.
SentTo(s) == SubSeq(emits'[s], Len(emits[s]) + 1, Len(emits'[s]))

Unregistered(s, sessions, intervals, handles) ==
  /\ s \notin sessions
  /\ s \notin handles
  /\ \A c \in Convs : intervals[c] # s

\* C30: a failed handshake, whatever its cause, leaves the socket
\* disconnected with no session entry and no periodic timer, and sends it
\* one quota:exceeded event when the quota check raised QUOTA_EXCEEDED and
\* nothing otherwise; the socket gets no session or timer afterwards.
C30_FailedHandshakeLeavesNothing ==
  /\ [][\A s \in Sockets : HandshakeFails(s) =>
          /\ Unregistered(s, sessionMap', periodicSaveIntervals', timers')
          /\ IF QuotaExceededRaised(s)
             THEN Len(SentTo(s)) = 1 /\ SentTo(s)[1].name = "quota:exceeded"
             ELSE SentTo(s) = <<>>]_vars
  /\ [](\A s \in Sockets : pc[s] = "rejected" =>
          Unregistered(s, sessionMap, periodicSaveIntervals, timers))

C30_Witness ==
  \E s1, s2 \in Sockets :
     /\ pc[s1] = "rejected" /\ pc[s2] = "rejected"
     /\ emits[s1] = <<>> /\ attr[s1].activeOrganizationId \in Orgs
     /\ Len(emits[s2]) = 1 /\ emits[s2][1].name = "quota:exceeded"

\* C33: when flush() returns no operation is left without a final outcome:
\* none is queued, none is being executed, and none waits in a retry timer.
C33_FlushLeavesNoRetryWaiting ==
  [][(flushing.pc # "returned" /\ flushing'.pc = "returned") =>
        (queue' = <<>> /\ inflight' = {} /\ retryTimers' = {})]_vars

\* C34: every operation processQueue takes off the queue is started.
C34_ShiftedIsExecuted ==
  [][\A i \in 1..Len(queue) :
        (ProcessQueue /\ \A j \in 1..Len(queue') : queue'[j] # queue[i]) =>
           queue[i] \in inflight']_vars

\* C39: every enqueue returns without an exception, whatever the queue
\* holds: the sort it ends with does not throw.
C39_EnqueueNeverThrows ==
  [][nextEnq' # nextEnq => ~SortThrows(queue')]_vars

\* C37: with the dispatcher, the datastore and the retry timers scheduled
\* fairly, the queue, the in-flight set and the retry timers end up empty,
\* and an operation leaves them only by an execution: one that succeeded,
\* or one that failed and was not to be retried.
Drained == queue = <<>> /\ inflight = {} /\ processing = {} /\ retryTimers = {}

C37_EveryOperationGetsAnOutcome ==
  /\ <>[]Drained
  /\ [][\A op \in AllOps :
          (\A left \in AllOps' : left.enq # op.enq) => op \in inflight]_vars

\* The connection promise of c has resolved.
Resolved(c) == ws[c] \in {"open", "closing"}

\* On every upstream connection the configuration is the first frame, and
\* the promise resolves only once it has been sent.
ConfigurationFirst ==
  \A c \in Convs :
     /\ frames[c] # <<>> => frames[c][1] = "config"
     /\ Resolved(c) <=> frames[c] # <<>>

C32_OneUpstreamPerConversation ==
  /\ [](\A c \in Convs : upstreams[c] <= 1 /\ (upstreams[c] = 1 <=> ws[c] # "none"))
  /\ [][\A c \in Convs :
          upstreams'[c] > upstreams[c] => (ws[c] = "none" /\ upstreams[c] = 0)]_vars

C32_Witness ==
  \E c \in Convs :
     /\ upstreams[c] = 1
     /\ epoch[c] = 1
     /\ audioWait # {}
     /\ \A s \in Sockets : ConvOf(s) = c /\ pc[s] = "ready"

\* C35: the disconnect of a connection whose handshake failed enqueues no
\* Transcription write and does not reach recordUsage.
C35_FailedHandshakeWritesNothing ==
  [][\A s \in Sockets :
        (Disconnect(s) /\ pc[s] = "rejected") =>
           (queue' = queue /\ nextEnq' = nextEnq /\ dpc'[s] = "done")]_vars

\* Every connection of conversation c has been disconnected and its
\* handleDisconnect has returned, one of them having finalized c, and the
\* upstream socket of c has closed.
FinalizationCompleted(c) ==
  /\ \E f \in finLog : f.conv = c
  /\ \A s \in Sockets : ConvOf(s) = c => dpc[s] = "done"
  /\ ws[c] = "none"

NoSessionState(c) ==
  /\ ~MapHas(accumulatedResults, c)
  /\ c \notin conversationData
  /\ c \notin conversationSubjects
  /\ c \notin conversationSubscriptions
  /\ periodicSaveIntervals[c] = NoTimer
  /\ timers = {}
  /\ c \notin cleaningUp

\* C36: once the finalization of a conversation has completed and its
\* upstream socket has closed, nothing of its session is left.
C36_NothingLeftAfterFinalization ==
  \A c \in Convs : FinalizationCompleted(c) => NoSessionState(c)

\* Another connection that is live on the conversation of s for a different
\* organization.
LiveSessionOfOther(s, other) ==
  /\ other # s
  /\ ConvOf(other) = ConvOf(s)
  /\ pc[other] = "ready" /\ dpc[other] = "none"
  /\ attr[other].activeOrganizationId # attr[s].activeOrganizationId

\* C38: a write built for one organization leaves the rows of another
\* organization as they are, and the disconnect of a connection leaves the
\* accumulator, the timer and the upstream connection of a live session of
\* another organization as they are.
C38_OwnersAreIsolated ==
  /\ [][\A op \in inflight : OpSucceed(op) =>
          \A r \in rows :
             r.organizationId # op.create.organizationId => r \in rows']_vars
  /\ [][\A s, other \in Sockets :
          (Disconnect(s) /\ LiveSessionOfOther(s, other)) =>
             /\ accumulatedResults' = accumulatedResults
             /\ periodicSaveIntervals' = periodicSaveIntervals
             /\ timers' = timers
             /\ ws' = ws]_vars

====
